---- MODULE Spec2Model ----
(***************************************************************************)
(* Model of the on-demand routing pipeline of chemins_noirs (backend):     *)
(*   - geo primitives and BoundingBox            (graph.rs, routing.rs)    *)
(*   - PBF filter and graph assembler            (graph.rs)                *)
(*   - tile merge                                (graph.rs)                *)
(*   - process LRU + disk cache lookups          (graph.rs,                *)
(*                                                bin/backend_partial.rs)  *)
(*   - routing engine (A* of petgraph) and loops (engine.rs, loops.rs)     *)
(*                                                                         *)
(* Coordinates are fixed-point integers: one unit is 10^-4 degree.  The    *)
(* worlds used are a few units wide and lie at the equator, so a unit of   *)
(* latitude and a unit of longitude have the same length.                  *)
(***************************************************************************)
EXTENDS Integers, Sequences, FiniteSets, TLC

-----------------------------------------------------------------------------
(* Generic helpers                                                         *)

Range(s) == {s[i] : i \in DOMAIN s}

RECURSIVE ISqrtBetween(_, _, _)
ISqrtBetween(n, lo, hi) ==
    IF lo >= hi THEN lo
    ELSE LET mid == (lo + hi + 1) \div 2
         IN IF mid * mid <= n THEN ISqrtBetween(n, mid, hi)
            ELSE ISqrtBetween(n, lo, mid - 1)

\* floor of the square root
ISqrt(n) == ISqrtBetween(n, 0, 46340)

RECURSIVE SeqSum(_)
SeqSum(s) == IF s = <<>> THEN 0 ELSE Head(s) + SeqSum(Tail(s))

RECURSIVE SortedSeq(_)
\* the elements of a finite set of integers, ascending
SortedSeq(S) ==
    IF S = {} THEN <<>>
    ELSE LET m == CHOOSE x \in S : \A y \in S : x <= y
         IN <<m>> \o SortedSeq(S \ {m})

RECURSIVE SeqFilterMap(_, _, _)
\* s.iter().filter_map(f): keep f[x] for the x of s in the domain of f
SeqFilterMap(s, dom, f) ==
    IF s = <<>> THEN <<>>
    ELSE (IF Head(s) \in dom THEN <<f[Head(s)]>> ELSE <<>>)
         \o SeqFilterMap(Tail(s), dom, f)

-----------------------------------------------------------------------------
(* Geo primitives                                                          *)

Coord(lat, lon) == [lat |-> lat, lon |-> lon]

\* squared_euclidean of the k-d tree, in units^2
DistSq(a, b) == (a.lat - b.lat) * (a.lat - b.lat) + (a.lon - b.lon) * (a.lon - b.lon)

\* haversine_km * 1000 on the equatorial grid: the great-circle length of a
\* few units is the Euclidean length; the result is in 1/10 unit, floored.
haversine(a, b) == ISqrt(100 * DistSq(a, b))

RECURSIVE PolylineLength(_)
\* sum of haversine over the windows(2) of a polyline
PolylineLength(p) ==
    IF Len(p) < 2 THEN 0
    ELSE haversine(p[1], p[2]) + PolylineLength(Tail(p))

BBox(a, b, c, d) == [min_lat |-> a, max_lat |-> b, min_lon |-> c, max_lon |-> d]

contains(bbox, c) ==
    /\ c.lat >= bbox.min_lat
    /\ c.lat <= bbox.max_lat
    /\ c.lon >= bbox.min_lon
    /\ c.lon <= bbox.max_lon

\* (x * 1000.0).round() as i64 for x in degrees: x is given in 10^-4 degree,
\* f64::round rounds half away from zero
Round3(x) == IF x >= 0 THEN (x + 5) \div 10 ELSE -((5 - x) \div 10)

\* the mutant hashes the bounds as given, without rounding
cache_key_unrounded(bbox) ==
    <<bbox.min_lat, bbox.max_lat, bbox.min_lon, bbox.max_lon>>

\* BoundingBox::cache_key: the hash input is the four rounded bounds in this
\* order; the key is the (injective) hex print of their hash
cache_key(bbox) ==
    <<Round3(bbox.min_lat), Round3(bbox.max_lat),
      Round3(bbox.min_lon), Round3(bbox.max_lon)>>

-----------------------------------------------------------------------------
(* Graph file records, PBF filter and graph assembler (graph.rs)            *)

None == [some |-> FALSE]
Some(v) == [some |-> TRUE, v |-> v]

Ok(v) == [ok |-> TRUE, v |-> v]
Err(e) == [ok |-> FALSE, err |-> e]

GraphFile(nodes, edges) == [nodes |-> nodes, edges |-> edges]

\* NodeRecord; elevation is carried by the source but read by no operation
\* modelled here
NodeRecord(id, lat, lon) ==
    [id |-> id, lat |-> lat, lon |-> lon, population_density |-> 0]

EdgeRecord(from, to, surface, length_m, waypoints) ==
    [from |-> from, to |-> to, surface |-> surface, length_m |-> length_m,
     waypoints |-> waypoints]

NodeCoord(n) == Coord(n.lat, n.lon)

\* tags of a way: the values of its highway and surface tags, "none" if absent
Tags(highway, surface) == [highway |-> highway, surface |-> surface]

OsmWay(id, refs, tags) == [id |-> id, refs |-> refs, tags |-> tags]

is_supported_highway(v) ==
    v \in {"path", "footway", "living_street", "secondary", "tertiary",
           "residential", "track", "service", "unclassified", "primary"}

has_supported_highway(tags) ==
    IF tags.highway # "none" THEN is_supported_highway(tags.highway) ELSE FALSE

infer_surface(tags) ==
    IF tags.surface # "none"
    THEN IF tags.surface \in {"gravel", "fine_gravel", "compacted", "unpaved"}
         THEN "Trail"
         ELSE IF tags.surface \in {"dirt", "earth", "ground", "grass"}
              THEN "Dirt"
              ELSE "Paved"
    ELSE IF tags.highway # "none"
         THEN IF tags.highway \in {"path", "footway", "track"}
              THEN "Trail"
              ELSE IF tags.highway \in {"service", "residential", "primary",
                                        "secondary", "tertiary"}
                   THEN "Paved"
                   ELSE "Trail"
         ELSE "Trail"

\* NodeCollectionState::new
NodeCollectionState_new ==
    [nodes |-> <<>>, coords |-> <<>>, osm_to_graph_id |-> <<>>]

\* NodeCollectionState::with_node.  osm_to_graph_id is a function from OSM ids
\* to graph ids; nodes and coords are the two vectors (Rust index k is TLA+
\* index k + 1).
with_node(state, osm_id, lat, lon) ==
    LET graph_id == Len(state.nodes) + 1
    IN [nodes |-> Append(state.nodes, NodeRecord(graph_id, lat, lon)),
        coords |-> Append(state.coords, Coord(lat, lon)),
        osm_to_graph_id |->
            [o \in (DOMAIN state.osm_to_graph_id) \cup {osm_id} |->
                IF o = osm_id THEN graph_id ELSE state.osm_to_graph_id[o]]]

\* coords[k] of the Rust vector
VecAt(vec, k) == vec[k + 1]

\* FilteredPbfData
FilteredPbfData(nodes, ways) == [nodes |-> nodes, ways |-> ways]

\* GraphBuilder::filter_pbf_to_memory.  pbf.nodes is a function from OSM ids
\* to coordinates, pbf.ways a sequence of ways; order is the order in which
\* the parallel reduce delivers the kept ways (a permutation of their indices).
filter_pbf_to_memory(pbf, bbox, order) ==
    LET nodes_in_bbox == {id \in DOMAIN pbf.nodes : contains(bbox, pbf.nodes[id])}
        kept == SelectSeq(pbf.ways, LAMBDA w : w.tags.highway # "none")
        ways_data == [i \in DOMAIN kept |-> kept[order[i]]]
        way_node_refs == UNION {Range(ways_data[i].refs) : i \in DOMAIN ways_data}
        missing_node_ids == way_node_refs \ nodes_in_bbox
        missing_nodes == missing_node_ids \cap DOMAIN pbf.nodes
    IN FilteredPbfData([id \in nodes_in_bbox \cup missing_nodes |-> pbf.nodes[id]],
                       ways_data)

\* identify_intersection_nodes
identify_intersection_nodes(ways) ==
    LET used == {i \in DOMAIN ways : ways[i].refs # <<>>}
        endpoints == {ways[i].refs[1] : i \in used}
                     \cup {ways[i].refs[Len(ways[i].refs)] : i \in used}
        node_count(n) ==
            Cardinality({<<i, j>> \in UNION {{i} \X DOMAIN ways[i].refs : i \in used} :
                            ways[i].refs[j] = n})
        seen == UNION {Range(ways[i].refs) : i \in used}
    IN {n \in seen : node_count(n) > 1 \/ n \in endpoints}

\* build_edge_with_waypoints: an Option<EdgeRecord>
build_edge_with_waypoints(node_refs, surface, osm_to_graph, coords) ==
    IF Len(node_refs) < 2 THEN None
    ELSE
    LET first_osm == node_refs[1]
        last_osm == node_refs[Len(node_refs)]
    IN IF first_osm \notin DOMAIN osm_to_graph \/ last_osm \notin DOMAIN osm_to_graph
       THEN None
       ELSE
       LET from_id == osm_to_graph[first_osm]
           to_id == osm_to_graph[last_osm]
       IN IF from_id >= Len(coords) \/ to_id >= Len(coords) THEN None
          ELSE
          LET from_coord == VecAt(coords, from_id)
              to_coord == VecAt(coords, to_id)
              inner == SubSeq(node_refs, 2, Len(node_refs) - 1)
              usable == {o \in DOMAIN osm_to_graph : osm_to_graph[o] < Len(coords)}
              waypoints == SeqFilterMap(inner, usable,
                              [o \in usable |-> VecAt(coords, osm_to_graph[o])])
              length_m == PolylineLength(<<from_coord>> \o waypoints \o <<to_coord>>)
          IN Some(EdgeRecord(from_id, to_id, surface, length_m, waypoints))

OptSeq(opt) == IF opt.some THEN <<opt.v>> ELSE <<>>

RECURSIVE WalkWay(_, _, _, _, _, _)
\* the loop over node_refs in build_from_filtered_data for one way: i is the
\* Rust index of the node looked at, segment_start the open segment's start
WalkWay(node_refs, surface, intersections, node_state, i, segment_start) ==
    IF i >= Len(node_refs)
    THEN \* Handle last segment if it wasn't closed
         IF segment_start < Len(node_refs) - 1
         THEN OptSeq(build_edge_with_waypoints(
                        SubSeq(node_refs, segment_start + 1, Len(node_refs)),
                        surface, node_state.osm_to_graph_id, node_state.coords))
         ELSE <<>>
    ELSE IF i > segment_start /\ VecAt(node_refs, i) \in intersections
         THEN OptSeq(build_edge_with_waypoints(
                        SubSeq(node_refs, segment_start + 1, i + 1),
                        surface, node_state.osm_to_graph_id, node_state.coords))
              \o WalkWay(node_refs, surface, intersections, node_state, i + 1, i)
         ELSE WalkWay(node_refs, surface, intersections, node_state, i + 1,
                      segment_start)

\* the edges one way contributes
WayEdges(way, intersections, node_state) ==
    IF Len(way.refs) < 2 THEN <<>>
    ELSE WalkWay(way.refs, infer_surface(way.tags), intersections, node_state, 0, 0)

RECURSIVE CollectNodes(_, _, _)
\* the loop over sorted_nodes
CollectNodes(sorted_nodes, nodes, state) ==
    IF sorted_nodes = <<>> THEN state
    ELSE LET osm_id == Head(sorted_nodes)
         IN CollectNodes(Tail(sorted_nodes), nodes,
               IF osm_id \notin DOMAIN state.osm_to_graph_id
               THEN with_node(state, osm_id, nodes[osm_id].lat, nodes[osm_id].lon)
               ELSE state)

RECURSIVE Flatten(_)
Flatten(ss) == IF ss = <<>> THEN <<>> ELSE Head(ss) \o Flatten(Tail(ss))

\* the per-way edge lists of build_from_filtered_data, in the order of data.ways
EdgesByWay(data, node_state) ==
    LET intersections == identify_intersection_nodes(data.ways)
    IN [i \in DOMAIN data.ways |-> WayEdges(data.ways[i], intersections, node_state)]

\* GraphBuilder::build_from_filtered_data
build_from_filtered_data(data) ==
    LET node_state == CollectNodes(SortedSeq(DOMAIN data.nodes), data.nodes,
                                   NodeCollectionState_new)
    IN IF node_state.nodes = <<>> THEN Err("EmptyGraph")
       ELSE Ok(GraphFile(node_state.nodes, Flatten(EdgesByWay(data, node_state))))

\* GraphBuilder::build_from_pbf with a bbox (build_from_pbf_optimized)
build_from_pbf(pbf, bbox, order) ==
    build_from_filtered_data(filter_pbf_to_memory(pbf, bbox, order))

-----------------------------------------------------------------------------
(* Tiles (graph.rs)                                                         *)

TILE_SIZE_KM == 20
KM_PER_DEGREE == 111
UNITS_PER_DEGREE == 10000

TileId(x, y) == [x |-> x, y |-> y]

\* (v / step).floor() and (v / step).ceil() for step = tile_size_km / 111
\* degrees, v in units (at the equator lon_step = lat_step)
TileFloor(v) == (v * KM_PER_DEGREE) \div (TILE_SIZE_KM * UNITS_PER_DEGREE)
TileCeil(v) == -(((-v) * KM_PER_DEGREE) \div (TILE_SIZE_KM * UNITS_PER_DEGREE))

\* BoundingBox::overlapping_tiles, as the sequence the two nested loops push
overlapping_tiles(bbox) ==
    LET min_tile_x == TileFloor(bbox.min_lon)
        max_tile_x == TileCeil(bbox.max_lon)
        min_tile_y == TileFloor(bbox.min_lat)
        max_tile_y == TileCeil(bbox.max_lat)
        nx == IF max_tile_x >= min_tile_x THEN max_tile_x - min_tile_x + 1 ELSE 0
        ny == IF max_tile_y >= min_tile_y THEN max_tile_y - min_tile_y + 1 ELSE 0
    IN [k \in 1..(nx * ny) |->
           TileId(min_tile_x + ((k - 1) \div ny), min_tile_y + ((k - 1) % ny))]

\* all orders in which a HashMap may hand out the elements of S
Orderings(S) == {s \in [1..Cardinality(S) -> S] : Range(s) = S}

RECURSIVE MergeTileNodes(_, _)
\* for node in tile_graph.nodes { all_nodes.entry(node.id).or_insert(node) }
MergeTileNodes(nodes, all_nodes) ==
    IF nodes = <<>> THEN all_nodes
    ELSE LET node == Head(nodes)
         IN MergeTileNodes(Tail(nodes),
               IF node.id \in DOMAIN all_nodes THEN all_nodes
               ELSE [i \in (DOMAIN all_nodes) \cup {node.id} |->
                        IF i = node.id THEN node ELSE all_nodes[i]])

RECURSIVE LoadTiles(_, _, _)
\* the loop over tile_ids: files maps the id of each tile file that exists to
\* [readable, graph], the GraphFile read_compressed yields when it can read
\* the file; acc is [nodes, edges]
LoadTiles(tile_ids, files, acc) ==
    IF tile_ids = <<>> THEN Ok(acc)
    ELSE LET tile_id == Head(tile_ids)
         IN IF tile_id \notin DOMAIN files THEN LoadTiles(Tail(tile_ids), files, acc)
            ELSE IF ~files[tile_id].readable THEN Err("Io")
            ELSE LoadTiles(Tail(tile_ids), files,
                    [nodes |-> MergeTileNodes(files[tile_id].graph.nodes, acc.nodes),
                     edges |-> acc.edges \o files[tile_id].graph.edges])

\* an edge filter that looks at one endpoint only
edge_from_in_nodes(node_ids, edge) == edge.from \in node_ids

\* |edge| node_ids.contains(&edge.from) && node_ids.contains(&edge.to)
edge_in_nodes(node_ids, edge) == edge.from \in node_ids /\ edge.to \in node_ids

\* GraphBuilder::build_from_tiles: the set of results it may return (the
\* order of the returned nodes is the HashMap's)
build_from_tiles(files, bbox) ==
    LET tile_ids == overlapping_tiles(bbox)
    IN IF tile_ids = <<>> THEN {Err("EmptyGraph")}
       ELSE LET loaded == LoadTiles(tile_ids, files, [nodes |-> <<>>, edges |-> <<>>])
            IN IF ~loaded.ok THEN {loaded}
               ELSE LET all_nodes == loaded.v.nodes
                        kept == {all_nodes[i] : i \in
                                    {j \in DOMAIN all_nodes :
                                        contains(bbox, NodeCoord(all_nodes[j]))}}
                        node_ids == {n.id : n \in kept}
                        filtered_edges ==
                            SelectSeq(loaded.v.edges,
                                LAMBDA e : edge_in_nodes(node_ids, e))
                    IN {Ok(GraphFile(filtered_nodes, filtered_edges)) :
                            filtered_nodes \in Orderings(kept)}

-----------------------------------------------------------------------------
(* Process LRU (graph.rs, GRAPH_CACHE; lru::LruCache)                       *)

\* NonZeroUsize::new(20)
LRU_CAPACITY == 20

\* the cache is the sequence of its entries, most recently used first
LruEntry(key, graph) == [key |-> key, graph |-> graph]

LruKeys(cache) == {cache[i].key : i \in DOMAIN cache}

LruIndex(cache, key) == CHOOSE i \in DOMAIN cache : cache[i].key = key

LruWithout(cache, key) == SelectSeq(cache, LAMBDA e : e.key # key)

\* LruCache::peek: the value, the order untouched
peek(cache, key) ==
    IF key \in LruKeys(cache) THEN Some(cache[LruIndex(cache, key)].graph) ELSE None

\* the cache after a lookup by peek
after_peek(cache, key) == cache

\* LruCache::get would move the entry to the front
after_get(cache, key) ==
    IF key \in LruKeys(cache)
    THEN <<cache[LruIndex(cache, key)]>> \o LruWithout(cache, key)
    ELSE cache

\* the cache after the lookup of LruGraphCache::get and of
\* build_partial_cached: cache.peek(key)
after_lookup(cache, key) == after_peek(cache, key)

\* a put into a cache without capacity: nothing is evicted
put_unbounded(cache, key, graph) ==
    <<LruEntry(key, graph)>> \o LruWithout(cache, key)

\* a put that keeps the value already stored under the key
put_keep_first(cache, key, graph) ==
    IF key \in LruKeys(cache) THEN cache
    ELSE IF Len(cache) >= LRU_CAPACITY
         THEN <<LruEntry(key, graph)>> \o SubSeq(cache, 1, Len(cache) - 1)
         ELSE <<LruEntry(key, graph)>> \o cache

\* LruCache::put: a stored key gets the new value and moves to the front; a
\* new key evicts the least recently used entry of a full cache
put(cache, key, graph) ==
    IF key \in LruKeys(cache)
    THEN <<LruEntry(key, graph)>> \o LruWithout(cache, key)
    ELSE IF Len(cache) >= LRU_CAPACITY
         THEN <<LruEntry(key, graph)>> \o SubSeq(cache, 1, Len(cache) - 1)
         ELSE <<LruEntry(key, graph)>> \o cache

-----------------------------------------------------------------------------
(* Cache lookups: GraphBuilder::build_partial_cached (graph.rs) and         *)
(* prepare_graph_for_bbox (bin/backend_partial.rs)                          *)

VARIABLES
    lru,        \* GRAPH_CACHE
    disk,       \* the files of the cache directory
    req,        \* the requests and where each stands in its lookup
    env,        \* PBF_PATH and TILES_DIR as the process finds them
    putLog,     \* history: key -> time and writer of its latest LRU put
    putClock,   \* history: number of LRU puts so far
    evicted,    \* history: the latest eviction
    hitKeys,    \* history: keys read from the LRU
    warm,       \* history: bboxes served by build_partial_cached, not evicted since
    faults,     \* history: crashes and I/O failures injected so far
    search,     \* the route or loop search in progress and its A* state
    asm         \* the graph production in progress (PBF assembler or tile
                \* merge): its input and what it returned

cacheVars == <<lru, disk, req, env, putLog, putClock, evicted, hitKeys, warm, faults>>

vars == <<lru, disk, req, env, putLog, putClock, evicted, hitKeys, warm, faults,
          search, asm>>

\* no route search is running
NoSearch == [phase |-> "idle"]

\* no assembly is running
NoAsm == [phase |-> "idle"]

MaxReqs == 2
MaxCrashes == 1
MaxIoFaults == 1

Reqs == 1..MaxReqs

\* the bboxes requests ask for (BoundingBox::from_route of the request's
\* start, end and margin): the first two differ below the third decimal
RequestBBoxes == {BBox(10, 30, 10, 30), BBox(11, 29, 12, 31), BBox(15, 30, 10, 30)}

\* bboxes of earlier requests whose graphs fill the LRU at the start
FillerBBox(i) == BBox(1000 * i, 1000 * i + 20, 0, 20)
FillerGraph(i) == GraphFile(<<NodeRecord(1, 1000 * i + 1, 1)>>, <<>>)

\* the PBF extract behind PBF_PATH in the cache runs
CachePbf ==
    [nodes |-> (1 :> Coord(12, 12)) @@ (2 :> Coord(20, 20)) @@ (3 :> Coord(10, 11)),
     ways |-> <<OsmWay(1, <<1, 2>>, Tags("path", "none"))>>]

\* the tile file of tile (0, 0) when TILES_DIR holds one
TileGraph00 ==
    GraphFile(<<NodeRecord(1, 12, 12), NodeRecord(2, 20, 20)>>,
              <<EdgeRecord(1, 2, "Trail", 113, <<>>)>>)

FileKinds == {"partial_zst", "partial_json", "bbox_zst", "bbox_json"}

\* partial_<key>.json.zst / partial_<key>.json of build_partial_cached,
\* <key>.json.zst / <key>.json of prepare_graph_for_bbox
ZstFile(kind, key) == <<IF kind = "partial" THEN "partial_zst" ELSE "bbox_zst", key>>
JsonFile(kind, key) == <<IF kind = "partial" THEN "partial_json" ELSE "bbox_json", key>>

AbsentFile == [st |-> "absent", graph |-> None, writers |-> {}, torn |-> FALSE]

IdleReq ==
    [kind |-> "none", bbox |-> None, pc |-> "idle", graph |-> None,
     result |-> None, tiers |-> <<>>, missed |-> FALSE, built |-> FALSE,
     hot |-> FALSE, iofail |-> FALSE, sawPartial |-> FALSE]

SameRounded(a, b) ==
    /\ Round3(a.min_lat) = Round3(b.min_lat)
    /\ Round3(a.max_lat) = Round3(b.max_lat)
    /\ Round3(a.min_lon) = Round3(b.min_lon)
    /\ Round3(a.max_lon) = Round3(b.max_lon)

Key(r) == cache_key(req[r].bbox)

Finish(r, res) == [req[r] EXCEPT !.pc = "done", !.result = res]

RECURSIVE FilledLru(_)
\* the LRU after the requests for FillerBBox(1), ..., FillerBBox(n)
FilledLru(n) ==
    IF n = 0 THEN <<>>
    ELSE put(FilledLru(n - 1), cache_key(FillerBBox(n)), FillerGraph(n))

FilledLog(n) ==
    [k \in {cache_key(FillerBBox(i)) : i \in 1..n} |->
        LET i == CHOOSE j \in 1..n : cache_key(FillerBBox(j)) = k
        IN [time |-> i, writer |-> 0, graph |-> FillerGraph(i)]]

CacheInit ==
    /\ \E n \in {0, LRU_CAPACITY} :
          /\ lru = FilledLru(n)
          /\ putLog = FilledLog(n)
          /\ putClock = n
    /\ disk = [f \in FileKinds \X {cache_key(b) : b \in RequestBBoxes} |-> AbsentFile]
    /\ req = [r \in Reqs |-> IdleReq]
    /\ env \in {[pbf |-> p, tiles |-> t] :
                   p \in {"readable", "missing"},
                   t \in {"unset", "missing", "empty", "tile00"}}
    /\ evicted = None
    /\ hitKeys = {}
    /\ warm = {}
    /\ faults = [crashes |-> 0, io |-> 0]
    /\ search = NoSearch
    /\ asm = NoAsm

\* the tile files under TILES_DIR
TileFiles ==
    IF env.tiles = "tile00"
    THEN (TileId(0, 0) :> [readable |-> TRUE, graph |-> TileGraph00])
    ELSE <<>>

\* cache.put(key, graph) under GRAPH_CACHE.write(), with its history; served
\* is the bbox of the request when the put ends a successful
\* build_partial_cached
LruPut(r, key, graph, served) ==
    LET after == put(lru, key, graph)
        gone == LruKeys(lru) \ LruKeys(after)
    IN /\ lru' = after
       /\ putClock' = putClock + 1
       /\ putLog' = [k \in LruKeys(after) |->
                        IF k = key \/ k \notin DOMAIN putLog
                        THEN [time |-> putClock + 1, writer |-> r, graph |-> graph]
                        ELSE putLog[k]]
       /\ evicted' = IF gone = {} THEN evicted
                     ELSE LET k == CHOOSE g \in gone : TRUE
                          IN Some([key |-> k, time |-> putLog[k].time,
                                   wasRead |-> k \in hitKeys,
                                   others |-> {putLog[j].time : j \in LruKeys(lru) \ {k}}])
       /\ warm' = {b \in warm : cache_key(b) \notin gone} \cup served


\* a handler is entered with its request
Start(r) ==
    /\ req[r].pc = "idle"
    /\ \E kind \in {"partial", "prepare"}, bbox \in RequestBBoxes :
          req' = [req EXCEPT ![r] =
                    [IdleReq EXCEPT !.kind = kind, !.bbox = bbox,
                                    !.pc = IF kind = "partial" THEN "lru" ELSE "disk"]]
    /\ UNCHANGED <<lru, disk, env, putLog, putClock, evicted, hitKeys, warm, faults, search, asm>>

\* build_partial_cached: GRAPH_CACHE.read(), cache.peek(&cache_key)
PartialLookupLru(r) ==
    /\ req[r].kind = "partial" /\ req[r].pc = "lru"
    /\ LET key == Key(r)
           found == peek(lru, key)
           hot == \E b \in warm : SameRounded(b, req[r].bbox)
       IN /\ lru' = after_lookup(lru, key)
          /\ IF found.some
             THEN /\ req' = [req EXCEPT ![r] =
                              [Finish(r, Ok(found.v)) EXCEPT !.tiers = <<"lru">>,
                                                            !.hot = hot]]
                  /\ hitKeys' = hitKeys \cup {key}
                  /\ warm' = warm \cup {req[r].bbox}
             ELSE /\ req' = [req EXCEPT ![r].pc = "disk", ![r].tiers = <<"lru">>,
                                        ![r].hot = hot]
                  /\ UNCHANGED <<hitKeys, warm>>
    /\ UNCHANGED <<disk, env, putLog, putClock, evicted, faults, search, asm>>

\* build_partial_cached: the disk cache, compressed then uncompressed
PartialCheckDisk(r) ==
    /\ req[r].kind = "partial" /\ req[r].pc = "disk"
    /\ LET key == Key(r)
           zst == disk[ZstFile("partial", key)]
           json == disk[JsonFile("partial", key)]
           file == IF zst.st # "absent" THEN zst ELSE json
           tiers == Append(req[r].tiers, "disk")
       IN IF file.st = "absent"
          THEN /\ req' = [req EXCEPT ![r].pc = "build", ![r].tiers = tiers,
                                     ![r].missed = TRUE]
               /\ UNCHANGED <<lru, putLog, putClock, evicted, warm>>
          ELSE IF file.st = "complete"
          THEN /\ req' = [req EXCEPT ![r] =
                            [Finish(r, Ok(file.graph)) EXCEPT !.tiers = tiers]]
               /\ LruPut(r, key, file.graph, {req[r].bbox})
          ELSE /\ req' = [req EXCEPT ![r] =
                            [Finish(r, Err("CacheRead")) EXCEPT !.tiers = tiers,
                                                               !.sawPartial = TRUE]]
               /\ UNCHANGED <<lru, putLog, putClock, evicted, warm>>
    /\ UNCHANGED <<disk, env, hitKeys, faults, search, asm>>

\* builder.build_from_pbf(pbf_path) of either lookup
Build(r) ==
    /\ req[r].pc = "build"
    /\ LET tiers == Append(req[r].tiers, "pbf")
           built == build_from_pbf(CachePbf, req[r].bbox, <<1>>)
       IN IF env.pbf = "readable" /\ built.ok
          THEN req' = [req EXCEPT ![r].pc = "mkdir", ![r].tiers = tiers,
                                  ![r].graph = Some(built.v), ![r].built = TRUE]
          ELSE req' = [req EXCEPT ![r] =
                         [Finish(r, Err("Build")) EXCEPT !.tiers = tiers]]
    /\ UNCHANGED <<lru, disk, env, putLog, putClock, evicted, hitKeys, warm, faults, search, asm>>

\* what a failed cache write does to the lookup: build_partial_cached
\* propagates it with `?`, prepare_graph_for_bbox drops it with .ok()
WriteFailed(r) ==
    IF req[r].kind = "partial"
    THEN [Finish(r, Err("CacheWrite")) EXCEPT !.iofail = TRUE]
    ELSE [Finish(r, Ok(req[r].graph.v)) EXCEPT !.iofail = TRUE]

\* std::fs::create_dir_all(cache_dir), which succeeds or fails
Mkdir(r) ==
    /\ req[r].pc = "mkdir"
    /\ \/ /\ req' = [req EXCEPT ![r].pc = "wz_create"]
          /\ UNCHANGED faults
       \/ /\ faults.io < MaxIoFaults
          /\ faults' = [faults EXCEPT !.io = @ + 1]
          /\ req' = [req EXCEPT ![r] =
                       IF req[r].kind = "partial" THEN WriteFailed(r)
                       ELSE [req[r] EXCEPT !.pc = "wz_create", !.iofail = TRUE]]
    /\ UNCHANGED <<lru, disk, env, putLog, putClock, evicted, hitKeys, warm, search, asm>>

\* File::create(path): the file exists from now on and is empty
CreateFile(r, f) ==
    disk' = [disk EXCEPT ![f] = [st |-> "partial", graph |-> None,
                                 writers |-> disk[f].writers \cup {r},
                                 torn |-> disk[f].writers # {}]]

\* the writer has written all its bytes: the file holds the graph, unless
\* another writer of the same path truncated it meanwhile
CloseFile(r, f) ==
    LET writers == disk[f].writers \ {r}
    IN \E st \in (IF writers # {} THEN {"partial"}
                  ELSE IF disk[f].torn THEN {"partial", "complete"}
                  ELSE {"complete"}) :
          disk' = [disk EXCEPT ![f] =
                      [st |-> st,
                       graph |-> IF st = "complete" THEN req[r].graph.v ELSE None,
                       writers |-> writers,
                       torn |-> disk[f].torn /\ writers # {}]]

\* write_to_path -> write_compressed: File::create of the .json.zst
WzCreate(r) ==
    /\ req[r].pc = "wz_create"
    /\ \/ /\ CreateFile(r, ZstFile(req[r].kind, Key(r)))
          /\ req' = [req EXCEPT ![r].pc = "wz_finish"]
          /\ UNCHANGED faults
       \/ /\ faults.io < MaxIoFaults
          /\ faults' = [faults EXCEPT !.io = @ + 1]
          /\ req' = [req EXCEPT ![r] = WriteFailed(r)]
          /\ UNCHANGED disk
    /\ UNCHANGED <<lru, env, putLog, putClock, evicted, hitKeys, warm, search, asm>>

\* write_compressed: encoder.finish()
WzFinish(r) ==
    /\ req[r].pc = "wz_finish"
    /\ CloseFile(r, ZstFile(req[r].kind, Key(r)))
    /\ req' = [req EXCEPT ![r].pc = "wj_create"]
    /\ UNCHANGED <<lru, env, putLog, putClock, evicted, hitKeys, warm, faults, search, asm>>

\* write_to_path: File::create of the .json
WjCreate(r) ==
    /\ req[r].pc = "wj_create"
    /\ \/ /\ CreateFile(r, JsonFile(req[r].kind, Key(r)))
          /\ req' = [req EXCEPT ![r].pc = "wj_finish"]
          /\ UNCHANGED faults
       \/ /\ faults.io < MaxIoFaults
          /\ faults' = [faults EXCEPT !.io = @ + 1]
          /\ req' = [req EXCEPT ![r] = WriteFailed(r)]
          /\ UNCHANGED disk
    /\ UNCHANGED <<lru, env, putLog, putClock, evicted, hitKeys, warm, search, asm>>

\* write_to_path: writer.flush(); prepare_graph_for_bbox returns the graph
WjFinish(r) ==
    /\ req[r].pc = "wj_finish"
    /\ CloseFile(r, JsonFile(req[r].kind, Key(r)))
    /\ req' = [req EXCEPT ![r] =
                 IF req[r].kind = "partial" THEN [req[r] EXCEPT !.pc = "put"]
                 ELSE Finish(r, Ok(req[r].graph.v))]
    /\ UNCHANGED <<lru, env, putLog, putClock, evicted, hitKeys, warm, faults, search, asm>>

\* build_partial_cached: GRAPH_CACHE.write(), cache.put(cache_key, graph)
PartialPut(r) ==
    /\ req[r].kind = "partial" /\ req[r].pc = "put"
    /\ LruPut(r, Key(r), req[r].graph.v, {req[r].bbox})
    /\ req' = [req EXCEPT ![r] = Finish(r, Ok(req[r].graph.v))]
    /\ UNCHANGED <<disk, env, hitKeys, faults, search, asm>>

\* prepare_graph_for_bbox: cache_path.exists(), GraphFile::read_from_path
PrepareCheckDisk(r) ==
    /\ req[r].kind = "prepare" /\ req[r].pc = "disk"
    /\ LET key == Key(r)
           zst == disk[ZstFile("prepare", key)]
           json == disk[JsonFile("prepare", key)]
           file == IF zst.st # "absent" THEN zst ELSE json
       IN IF json.st = "absent"
          THEN req' = [req EXCEPT ![r].pc = "tiles", ![r].tiers = <<"disk">>,
                                  ![r].missed = TRUE]
          ELSE IF file.st = "complete"
          THEN req' = [req EXCEPT ![r] =
                         [Finish(r, Ok(file.graph)) EXCEPT !.tiers = <<"disk">>]]
          ELSE req' = [req EXCEPT ![r] =
                         [Finish(r, Err("CacheRead")) EXCEPT !.tiers = <<"disk">>,
                                                            !.sawPartial = TRUE]]
    /\ UNCHANGED <<lru, disk, env, putLog, putClock, evicted, hitKeys, warm, faults, search, asm>>

\* prepare_graph_for_bbox: config.tiles_dir, tiles_dir.exists(), build_from_tiles
PrepareTiles(r) ==
    /\ req[r].kind = "prepare" /\ req[r].pc = "tiles"
    /\ IF env.tiles \in {"unset", "missing"}
       THEN req' = [req EXCEPT ![r].pc = "build"]
       ELSE \E res \in build_from_tiles(TileFiles, req[r].bbox) :
               IF res.ok
               THEN req' = [req EXCEPT ![r].pc = "mkdir",
                                       ![r].tiers = Append(@, "tiles"),
                                       ![r].graph = Some(res.v), ![r].built = TRUE]
               ELSE req' = [req EXCEPT ![r].pc = "build",
                                       ![r].tiers = Append(@, "tiles")]
    /\ UNCHANGED <<lru, disk, env, putLog, putClock, evicted, hitKeys, warm, faults, search, asm>>

\* the process dies and is started again: the requests in flight are gone,
\* the LRU is empty, the files stay as they are
Crash ==
    /\ faults.crashes < MaxCrashes
    /\ \E r \in Reqs : req[r].pc \notin {"idle", "done", "aborted"}
    /\ faults' = [faults EXCEPT !.crashes = @ + 1]
    /\ req' = [r \in Reqs |->
                 IF req[r].pc = "idle" THEN req[r]
                 ELSE IF req[r].pc = "done" THEN [req[r] EXCEPT !.pc = "aborted"]
                 ELSE [req[r] EXCEPT !.pc = "aborted", !.result = None]]
    /\ disk' = [f \in DOMAIN disk |-> [disk[f] EXCEPT !.writers = {}, !.torn = FALSE]]
    /\ lru' = <<>>
    /\ putLog' = <<>>
    /\ warm' = {}
    /\ UNCHANGED <<env, putClock, evicted, hitKeys, search, asm>>

CacheNext ==
    \/ \E r \in Reqs : Start(r)
    \/ \E r \in Reqs : PartialLookupLru(r)
    \/ \E r \in Reqs : PartialCheckDisk(r)
    \/ \E r \in Reqs : PrepareCheckDisk(r)
    \/ \E r \in Reqs : PrepareTiles(r)
    \/ \E r \in Reqs : Build(r)
    \/ \E r \in Reqs : Mkdir(r)
    \/ \E r \in Reqs : WzCreate(r)
    \/ \E r \in Reqs : WzFinish(r)
    \/ \E r \in Reqs : WjCreate(r)
    \/ \E r \in Reqs : WjFinish(r)
    \/ \E r \in Reqs : PartialPut(r)
    \/ Crash

SpecCache == CacheInit /\ [][CacheNext]_vars

-----------------------------------------------------------------------------
(* LruGraphCache on its own: any interleaving of get and put on a cache     *)
(* that earlier requests have filled                                        *)

MaxLruPuts == 3

\* the requests of the interleaving ask for the two oldest entries, the
\* newest one, and two bboxes the cache has not seen
LruWorkIds == {1, 2, LRU_CAPACITY, LRU_CAPACITY + 1, LRU_CAPACITY + 2}

LruInit ==
    /\ \E n \in {LRU_CAPACITY - 1, LRU_CAPACITY} :
          /\ lru = FilledLru(n)
          /\ putLog = FilledLog(n)
          /\ putClock = n
    /\ disk = <<>>
    /\ req = <<>>
    /\ env = [pbf |-> "missing", tiles |-> "unset"]
    /\ evicted = None
    /\ hitKeys = {}
    /\ warm = {}
    /\ faults = [crashes |-> 0, io |-> 0]
    /\ search = NoSearch
    /\ asm = NoAsm

\* LruGraphCache::get
CacheGet(i) ==
    LET key == cache_key(FillerBBox(i))
    IN /\ lru' = after_lookup(lru, key)
       /\ hitKeys' = IF peek(lru, key).some THEN hitKeys \cup {key} ELSE hitKeys
       /\ UNCHANGED <<disk, req, env, putLog, putClock, evicted, warm, faults, search, asm>>

\* LruGraphCache::put
CachePut(i) ==
    /\ putClock < LRU_CAPACITY + MaxLruPuts
    /\ LruPut(0, cache_key(FillerBBox(i)), FillerGraph(i), {})
    /\ UNCHANGED <<disk, req, env, hitKeys, faults, search, asm>>

LruNext ==
    \/ \E i \in LruWorkIds : CacheGet(i)
    \/ \E i \in LruWorkIds : CachePut(i)

SpecLru == LruInit /\ [][LruNext]_vars

-----------------------------------------------------------------------------
(* Routing engine (engine.rs): the graph of a GraphFile, nearest node,      *)
(* edge cost, and the A* search of petgraph                                 *)

MAX_DISTANCE_KM == 20

NodeData(coord, density) == [coord |-> coord, population_density |-> density]

EdgeData(length_m, surface, density, waypoints) ==
    [length_m |-> length_m, surface |-> surface,
     mean_population_density |-> density, waypoints |-> waypoints]

\* id_to_index.insert(node.id, idx): a later node of the same id replaces
\* the earlier one; a NodeIndex is the position in graph_file.nodes
IdToIndex(nodes) ==
    [id \in {nodes[i].id : i \in DOMAIN nodes} |->
        CHOOSE i \in DOMAIN nodes :
            /\ nodes[i].id = id
            /\ \A j \in DOMAIN nodes : nodes[j].id = id => j <= i]

\* RouteEngine::from_graph_file.  The graph is undirected and
\* graph.update_edge replaces the weight of an edge that already joins the
\* two nodes, so that the edges are a map from node pairs to EdgeData.
from_graph_file(graph_file) ==
    IF graph_file.nodes = <<>> THEN Err("EmptyGraph")
    ELSE
      LET id_to_index == IdToIndex(graph_file.nodes)
          E == graph_file.edges
          unknown == {k \in DOMAIN E : E[k].from \notin DOMAIN id_to_index
                                       \/ E[k].to \notin DOMAIN id_to_index}
          Ends(k) == {id_to_index[E[k].from], id_to_index[E[k].to]}
          Last(p) == CHOOSE k \in DOMAIN E :
                        /\ Ends(k) = p
                        /\ \A j \in DOMAIN E : Ends(j) = p => j <= k
          nodes == [i \in DOMAIN graph_file.nodes |->
                       NodeData(NodeCoord(graph_file.nodes[i]),
                                graph_file.nodes[i].population_density)]
      IN IF unknown # {} THEN Err("MissingNode")
         ELSE Ok([nodes |-> nodes,
                  edges |-> [p \in {Ends(k) : k \in DOMAIN E} |->
                      LET e == E[Last(p)]
                      IN EdgeData(e.length_m, e.surface,
                             (nodes[id_to_index[e.from]].population_density
                              + nodes[id_to_index[e.to]].population_density) \div 2,
                             e.waypoints)]])

\* RouteEngine::closest_node: the nearest node of the k-d tree (built over
\* all nodes) if it lies within MAX_DISTANCE_KM, with 1 degree = 111 km.
\* Which of several equally near nodes the tree returns is not fixed: the
\* operator yields the set of possible answers.
closest_node(engine, target) ==
    LET d(i) == DistSq(engine.nodes[i].coord, target)
        nearest == {i \in DOMAIN engine.nodes :
                       \A j \in DOMAIN engine.nodes : d(i) <= d(j)}
    IN {IF ISqrt(100 * d(i)) * KM_PER_DEGREE
              <= 10 * MAX_DISTANCE_KM * UNITS_PER_DEGREE
        THEN Some(i) ELSE None : i \in nearest}

WeightConfig(population, paved) == [population |-> population, paved |-> paved]

\* RouteEngine::edge_cost, in tenths: the paved penalty is 1.0 for Paved,
\* 0.2 for Trail and 0.0 for Dirt
edge_cost(edge, weights) ==
    LET paved_penalty == CASE edge.surface = "Paved" -> 10
                           [] edge.surface = "Trail" -> 2
                           [] OTHER -> 0
    IN edge.length_m * (10 + 10 * weights.population * edge.mean_population_density
                           + weights.paved * paved_penalty)

straight_line_km(a, b) == haversine(a, b)

\* the heuristic closure of find_path_with_excluded_edges (tenths, as the
\* edge cost): the distance from the node to the coordinate of the request
heuristic(engine, req_end, end, idx) ==
    IF idx = end THEN 0
    ELSE 10 * straight_line_km(engine.nodes[idx].coord, req_end)

\* the edge_cost closure of find_path_with_excluded_edges
excluded_edge_cost(engine, weights, excluded_edges, start, from, to) ==
    LET base_cost == edge_cost(engine.edges[{from, to}], weights)
        is_excluded == <<from, to>> \in excluded_edges
                       \/ <<to, from>> \in excluded_edges
        is_final_return == to = start \/ from = start
    IN IF is_excluded /\ ~is_final_return THEN base_cost * 10 ELSE base_cost

\* the edges of a directed graph: only those leaving node for a later node
Neighbors_directed(engine, node) ==
    {m \in DOMAIN engine.nodes : m > node /\ {node, m} \in DOMAIN engine.edges}

\* graph.edges(node): the nodes an edge joins to node
Neighbors(engine, node) ==
    {m \in DOMAIN engine.nodes : {node, m} \in DOMAIN engine.edges}

RECURSIVE ExpandFrom(_, _, _)
\* expand_path_with_waypoints after the first node: for each window the
\* waypoints of the edge as stored, then the coordinate of the next node
ExpandFrom(engine, route, k) ==
    IF k >= Len(route) THEN <<>>
    ELSE (IF {route[k], route[k + 1]} \in DOMAIN engine.edges
          THEN engine.edges[{route[k], route[k + 1]}].waypoints ELSE <<>>)
         \o <<engine.nodes[route[k + 1]].coord>>
         \o ExpandFrom(engine, route, k + 1)

expand_path_with_waypoints(engine, route) ==
    IF route = <<>> THEN <<>>
    ELSE <<engine.nodes[route[1]].coord>> \o ExpandFrom(engine, route, 1)

RECURSIVE ReconstructPath(_, _, _)
\* PathTracker::reconstruct_path_to: follow came_from back from the goal
ReconstructPath(came_from, node, fuel) ==
    IF node \in DOMAIN came_from /\ fuel > 0
    THEN Append(ReconstructPath(came_from, came_from[node], fuel - 1), node)
    ELSE <<node>>

RECURSIVE Rooted(_, _, _)
\* PathTracker::reconstruct_path_to returns: the predecessors of the node
\* lead to a node that has none.  Its loop "while let Some(&previous) =
\* came_from.get(&current)" pushes a node per turn and has no other exit.
Rooted(came_from, node, fuel) ==
    \/ node \notin DOMAIN came_from
    \/ fuel > 0 /\ Rooted(came_from, came_from[node], fuel - 1)

RECURSIVE PushAll(_, _)
PushAll(heap, entries) ==
    IF entries = <<>> THEN heap
    ELSE PushAll(Append(heap, Head(entries)), Tail(entries))

\* petgraph::algo::astar, the state before the first pop
AstarStart(engine, req_end, start, end) ==
    [visit_next |-> <<[score |-> heuristic(engine, req_end, end, start),
                      node |-> start]>>,
     scores |-> (start :> 0),
     estimate_scores |-> <<>>,
     came_from |-> <<>>]

\* astar: the body of the loop for a popped MinScored(estimate_score, node)
\* that is not the goal; a is the state with the entry already popped
AstarVisit(engine, weights, excluded_edges, req_end, start, end, a, popped) ==
    LET node == popped.node
        node_score == a.scores[node]
        stale == node \in DOMAIN a.estimate_scores
                 /\ a.estimate_scores[node] <= popped.score
        next_score(m) ==
            node_score + excluded_edge_cost(engine, weights, excluded_edges,
                                            start, node, m)
        better == {m \in Neighbors(engine, node) :
                      ~(m \in DOMAIN a.scores /\ a.scores[m] <= next_score(m))}
        order == SortedSeq(better)
    IN IF stale THEN a
       ELSE [visit_next |->
                PushAll(a.visit_next,
                        [k \in DOMAIN order |->
                            [score |-> next_score(order[k])
                                       + heuristic(engine, req_end, end, order[k]),
                             node |-> order[k]]]),
             scores |-> [m \in DOMAIN a.scores \cup better |->
                            IF m \in better THEN next_score(m) ELSE a.scores[m]],
             estimate_scores |->
                [m \in DOMAIN a.estimate_scores \cup {node} |->
                    IF m = node THEN popped.score ELSE a.estimate_scores[m]],
             came_from |-> [m \in DOMAIN a.came_from \cup better |->
                               IF m \in better THEN node ELSE a.came_from[m]]]

\* extract_edges_from_path: every window of the polyline, each end snapped
\* to its closest node.  The result is a set of possible edge sets, one per
\* way equally near nodes are told apart (a coordinate snaps the same way
\* each time it is asked for).
extract_edges_from_path(engine, path) ==
    LET pts == Range(path)
        snaps == {f \in [pts -> UNION {closest_node(engine, c) : c \in pts}] :
                     \A c \in pts : f[c] \in closest_node(engine, c)}
    IN {{<<f[path[k]].v, f[path[k + 1]].v>> :
            k \in {j \in 1..(Len(path) - 1) :
                      f[path[j]].some /\ f[path[j + 1]].some}} : f \in snaps}

-----------------------------------------------------------------------------
(* find_path and build_loop_path as a state machine: a request arrives,     *)
(* A* runs pop by pop, the route is expanded; a loop runs two searches      *)

\* S - A - T along a line with a winding direct edge S - T; the direct edge
\* is longer than the way round by A
DetourGraph ==
    GraphFile(<<NodeRecord(1, 0, 0), NodeRecord(2, -10, 0), NodeRecord(3, 20, 0)>>,
              <<EdgeRecord(1, 2, "Paved", 100, <<>>),
                EdgeRecord(2, 3, "Paved", 300, <<>>),
                EdgeRecord(1, 3, "Dirt", 500, <<Coord(10, 23)>>)>>)

\* the diamond A-B-C / A-D-C with four equal sides
DiamondGraph ==
    GraphFile(<<NodeRecord(1, 0, 0), NodeRecord(2, 10, 10),
                NodeRecord(3, 20, 0), NodeRecord(4, 10, -10)>>,
              <<EdgeRecord(1, 2, "Trail", 141, <<>>),
                EdgeRecord(2, 3, "Trail", 141, <<>>),
                EdgeRecord(1, 4, "Trail", 141, <<>>),
                EdgeRecord(4, 3, "Trail", 141, <<>>)>>)

\* a diamond whose side by D is six times as long as the side by B
LongDiamondGraph ==
    GraphFile(<<NodeRecord(1, 0, 0), NodeRecord(2, 10, 0),
                NodeRecord(3, 20, 0), NodeRecord(4, 10, 60)>>,
              <<EdgeRecord(1, 2, "Trail", 100, <<>>),
                EdgeRecord(2, 3, "Trail", 100, <<>>),
                EdgeRecord(1, 4, "Trail", 608, <<>>),
                EdgeRecord(4, 3, "Trail", 608, <<>>)>>)

\* a diamond whose sides carry waypoints; the side by B bends towards D
WaypointDiamondGraph ==
    GraphFile(<<NodeRecord(1, 0, 0), NodeRecord(2, 20, 20),
                NodeRecord(3, 0, 40), NodeRecord(4, -20, 20)>>,
              <<EdgeRecord(1, 2, "Trail", 584, <<Coord(-15, 18)>>),
                EdgeRecord(2, 3, "Trail", 584, <<Coord(-15, 22)>>),
                EdgeRecord(1, 4, "Trail", 635, <<Coord(-10, -20)>>),
                EdgeRecord(4, 3, "Trail", 635, <<Coord(-10, 60)>>)>>)

\* two ways join the same two junctions; a third node has no edge
ParallelGraph ==
    GraphFile(<<NodeRecord(1, 0, 0), NodeRecord(2, 30, 0), NodeRecord(3, 0, 40)>>,
              <<EdgeRecord(1, 2, "Trail", 300, <<>>),
                EdgeRecord(1, 2, "Trail", 500, <<Coord(10, 20), Coord(20, 20)>>)>>)

RouteGraphs ==
    {DetourGraph, DiamondGraph, LongDiamondGraph, WaypointDiamondGraph, ParallelGraph}

\* a requested coordinate that is no node of any of the graphs
OffNode == Coord(50, 0)

\* the coordinates a request may carry for a graph
RouteCoords(g) == {NodeCoord(g.nodes[i]) : i \in DOMAIN g.nodes} \cup {OffNode}

\* w_pop and w_paved of a request
RouteWeights == {0, 1}

\* the graphs of the multi-point requests
MultiGraphs == {DetourGraph, WaypointDiamondGraph, ParallelGraph}

MaxPoints == 3

\* the points of a multi-point request: two waypoints or more, and with
\* close_loop the first one again at the end
MultiPoints(g) ==
    LET waypoints == UNION {[1..n -> RouteCoords(g)] : n \in 2..MaxPoints}
    IN waypoints \cup {Append(w, w[1]) : w \in waypoints}

RouteRequest(start, end, w_pop, w_paved) ==
    [start |-> start, end |-> end, w_pop |-> w_pop, w_paved |-> w_paved]

EngineOf(g) == from_graph_file(g).v

\* a request as it enters its handler
NewSearch(op, stage, g, request) ==
    [phase |-> "astar", op |-> op, stage |-> stage, graph |-> g, req |-> request,
     query |-> request, snapped |-> FALSE, start |-> 0, end |-> 0,
     excluded |-> {}, astar |-> <<>>, route |-> <<>>,
     outbound |-> <<>>, outbound_route |-> <<>>, result |-> None]

\* find_path_with_excluded_edges up to the call of astar: both ends are
\* snapped, a failed snap returns None
BeginSearch(base, query, excluded_edges) ==
    LET engine == EngineOf(base.graph)
    IN {IF s.some /\ e.some
        THEN [base EXCEPT !.phase = "astar", !.query = query, !.snapped = TRUE,
                          !.start = s.v, !.end = e.v,
                          !.excluded = excluded_edges,
                          !.astar = AstarStart(engine, query.end, s.v, e.v)]
        ELSE [base EXCEPT !.phase = "done", !.query = query, !.result = None] :
           s \in closest_node(engine, query.start),
           e \in closest_node(engine, query.end)}

QuietCache ==
    /\ lru = <<>>
    /\ disk = <<>>
    /\ req = <<>>
    /\ env = [pbf |-> "missing", tiles |-> "unset"]
    /\ putLog = <<>>
    /\ putClock = 0
    /\ evicted = None
    /\ hitKeys = {}
    /\ warm = {}
    /\ faults = [crashes |-> 0, io |-> 0]

RouteInit ==
    /\ QuietCache
    /\ search = NoSearch
    /\ asm = NoAsm

\* RouteEngine::find_path is called with a request
FindPath ==
    /\ search.phase = "idle"
    /\ \E g \in RouteGraphs :
          \E s \in RouteCoords(g), e \in RouteCoords(g),
             w_pop \in RouteWeights, w_paved \in RouteWeights :
             LET request == RouteRequest(s, e, w_pop, w_paved)
             IN search' \in BeginSearch(NewSearch("find_path", "single", g, request),
                                        request, {})
    /\ UNCHANGED <<cacheVars, asm>>

\* build_loop_path is called with a start and a waypoint: the outbound
\* search goes from the start to the waypoint
BuildLoopPath ==
    /\ search.phase = "idle"
    /\ \E g \in RouteGraphs :
          \E s \in RouteCoords(g), waypoint \in RouteCoords(g),
             w_pop \in RouteWeights, w_paved \in RouteWeights :
             LET to_waypoint == RouteRequest(s, waypoint, w_pop, w_paved)
             IN search' \in BeginSearch(
                               NewSearch("build_loop_path", "outbound", g, to_waypoint),
                               to_waypoint, {})
    /\ UNCHANGED <<cacheVars, asm>>

\* multi_route_handler, "Merge paths, avoiding duplicate waypoints": the
\* first path is taken whole, a later one without its first coordinate
merge_segment_last_only(all_coords, path, segment) == path

merge_segment(all_coords, path, segment) ==
    IF segment = 1 THEN all_coords \o path ELSE all_coords \o Tail(path)

\* multi_route_handler calls find_path for the segment from points[segment]
\* to points[segment + 1].  The k-d tree of the engine does not change
\* between the calls, so a point is snapped to the node it was snapped to
\* as the end of the segment before.
BeginSegment(base, segment) ==
    LET segment_req == RouteRequest(base.points[segment], base.points[segment + 1],
                                    base.req.w_pop, base.req.w_paved)
        begun == BeginSearch([base EXCEPT !.segment = segment, !.route = <<>>],
                             segment_req, {})
    IN {b \in begun : (segment > 1 /\ b.snapped) => b.start = base.end}

\* the segment loop of multi_route_handler is entered with the points of
\* the request (the first one again at the end if close_loop is set)
MultiRouteSegments ==
    /\ search.phase = "idle"
    /\ \E g \in MultiGraphs :
          \E points \in MultiPoints(g), w_pop \in RouteWeights,
             w_paved \in RouteWeights :
             LET first == RouteRequest(points[1], points[2], w_pop, w_paved)
                 entered == NewSearch("multi_route", "segment", g, first)
                            @@ [points |-> points, segment |-> 1,
                                all_coords |-> <<>>, total_distance |-> 0,
                                segment_lengths |-> <<>>]
             IN search' \in BeginSegment(entered, 1)
    /\ UNCHANGED <<cacheVars, asm>>

\* the entries astar may pop next: BinaryHeap pops a least score, and which
\* of several entries of that score comes first is not specified
Poppable == {i \in DOMAIN search.astar.visit_next :
                \A j \in DOMAIN search.astar.visit_next :
                    search.astar.visit_next[i].score <= search.astar.visit_next[j].score}

Popped(i) ==
    [search.astar EXCEPT !.visit_next =
        [k \in 1..(Len(@) - 1) |-> IF k < i THEN @[k] ELSE @[k + 1]]]

\* the scores of a search are followed down to -MaxDescent
MaxDescent == 40000

\* astar pops a node that is not the goal and relaxes its edges
AstarExpand ==
    /\ search.phase = "astar"
    /\ \A n \in DOMAIN search.astar.scores : search.astar.scores[n] >= -MaxDescent
    /\ \E i \in Poppable :
          LET popped == search.astar.visit_next[i]
          IN /\ popped.node # search.end
             /\ search' = [search EXCEPT !.astar =
                   AstarVisit(EngineOf(search.graph),
                              WeightConfig(search.query.w_pop, search.query.w_paved),
                              search.excluded, search.query.end,
                              search.start, search.end, Popped(i), popped)]
    /\ UNCHANGED <<cacheVars, asm>>

\* astar pops the goal: the route is rebuilt and expanded; build_loop_path
\* goes on with the return search or merges the two paths.  If the
\* predecessors of the goal run in a circle the route is never rebuilt:
\* the search stays in the phase "reconstruct".
AstarGoal ==
    /\ search.phase = "astar"
    /\ \E i \in Poppable :
          LET popped == search.astar.visit_next[i]
              engine == EngineOf(search.graph)
              route == ReconstructPath(search.astar.came_from, popped.node,
                                       Len(engine.nodes))
              path == expand_path_with_waypoints(engine, route)
              found == [search EXCEPT !.astar = Popped(i), !.route = route]
          IN /\ popped.node = search.end
             /\ CASE ~Rooted(search.astar.came_from, popped.node, Len(engine.nodes)) ->
                       search' = [search EXCEPT !.phase = "reconstruct",
                                                !.astar = Popped(i)]
                  [] search.stage = "single" ->
                       search' = [found EXCEPT !.phase = "done",
                                               !.result = Some(path)]
                  [] search.stage = "outbound" ->
                       \E excluded_edges \in extract_edges_from_path(engine, path) :
                          search' \in BeginSearch(
                             [found EXCEPT !.stage = "inbound",
                                           !.outbound = path,
                                           !.outbound_route = route],
                             RouteRequest(search.req.end, search.req.start,
                                          search.req.w_pop, search.req.w_paved),
                             excluded_edges)
                  [] search.stage = "segment" ->
                       LET merged == [found EXCEPT
                               !.all_coords = merge_segment(@, path, search.segment),
                               !.segment_lengths = Append(@, PolylineLength(path))]
                           measured == [merged EXCEPT
                               !.total_distance = PolylineLength(merged.all_coords)]
                       IN IF search.segment = Len(search.points) - 1
                          THEN search' = [measured EXCEPT
                                             !.phase = "done",
                                             !.result = Some(measured.all_coords)]
                          ELSE search' \in BeginSegment(measured, search.segment + 1)
                  [] OTHER ->
                       search' = [found EXCEPT !.phase = "done",
                                     !.result = Some(search.outbound \o Tail(path))]
    /\ UNCHANGED <<cacheVars, asm>>

\* visit_next is empty: astar returns None and so does the caller
AstarExhausted ==
    /\ search.phase = "astar"
    /\ search.astar.visit_next = <<>>
    /\ search' = [search EXCEPT !.phase = "done", !.result = None]
    /\ UNCHANGED <<cacheVars, asm>>

RouteNext ==
    \/ FindPath
    \/ BuildLoopPath
    \/ AstarExpand
    \/ AstarGoal
    \/ AstarExhausted

SpecRoute == RouteInit /\ [][RouteNext]_vars

\* w_pop and w_paved as the JSON body of a request may carry them: the
\* handlers pass any f64 on to the engine
SignedWeights == {-10, 0, 1}

\* RouteEngine::find_path is called with a request of any weights
FindPathSigned ==
    /\ search.phase = "idle"
    /\ \E g \in RouteGraphs :
          \E s \in RouteCoords(g), e \in RouteCoords(g),
             w_pop \in SignedWeights, w_paved \in SignedWeights :
             LET request == RouteRequest(s, e, w_pop, w_paved)
             IN search' \in BeginSearch(NewSearch("find_path", "single", g, request),
                                        request, {})
    /\ UNCHANGED <<cacheVars, asm>>

SignedNext ==
    \/ FindPathSigned
    \/ AstarExpand
    \/ AstarGoal
    \/ AstarExhausted

SpecSigned == RouteInit /\ [][SignedNext]_vars

MultiNext ==
    \/ MultiRouteSegments
    \/ AstarExpand
    \/ AstarGoal
    \/ AstarExhausted

SpecMulti == RouteInit /\ [][MultiNext]_vars

-----------------------------------------------------------------------------
(* The bbox assembler as a state machine: build_from_pbf on a PBF extract   *)
(* filters it to memory and then builds the graph                           *)

\* the OSM nodes of the extracts
AsmNodes ==
    (10 :> Coord(0, 0)) @@ (20 :> Coord(10, 0)) @@ (30 :> Coord(20, 0))
    @@ (40 :> Coord(30, 0)) @@ (50 :> Coord(40, 10))

\* the node refs a way of the extracts may have; node 60 is in no extract,
\* the last way crosses itself at node 20
AsmRefs ==
    {<<10, 20>>, <<10, 20, 30>>, <<20, 30, 40>>, <<10, 20, 30, 40>>,
     <<30, 50>>, <<40, 50>>, <<10, 60>>, <<10, 20, 30, 40, 20, 50>>}

AsmHighways == {"path", "residential", "motorway", "none"}

\* extracts of two ways
AsmPbfs ==
    {[nodes |-> AsmNodes,
      ways |-> <<OsmWay(1, r1, Tags(h1, "none")), OsmWay(2, r2, Tags(h2, "none"))>>] :
         r1 \in AsmRefs, r2 \in AsmRefs, h1 \in AsmHighways, h2 \in AsmHighways}

\* a bbox around every node and one around nodes 10, 20 and 30 only
AsmBBoxes == {BBox(-5, 45, -5, 15), BBox(-5, 25, -5, 5)}

\* the order in which the parallel reduce hands over the n kept ways
WayOrder(n, reversed) == [i \in 1..n |-> IF reversed THEN n + 1 - i ELSE i]

AsmInit ==
    /\ QuietCache
    /\ search = NoSearch
    /\ asm \in {[phase |-> "input", pbf |-> pbf, bbox |-> bbox, reversed |-> rev] :
                   pbf \in AsmPbfs, bbox \in AsmBBoxes, rev \in BOOLEAN}

\* build_from_pbf_optimized: filter_pbf_to_memory
AsmFilter ==
    /\ asm.phase = "input"
    /\ LET kept == Len(SelectSeq(asm.pbf.ways, LAMBDA w : w.tags.highway # "none"))
       IN asm' = [phase |-> "filtered", pbf |-> asm.pbf, bbox |-> asm.bbox,
                  data |-> filter_pbf_to_memory(asm.pbf, asm.bbox,
                                                WayOrder(kept, asm.reversed))]
    /\ UNCHANGED <<cacheVars, search>>

\* build_from_pbf_optimized: build_from_filtered_data; by_way keeps the
\* edges of the result way by way, node_map the OSM id of each graph id
AsmBuild ==
    /\ asm.phase = "filtered"
    /\ LET node_state == CollectNodes(SortedSeq(DOMAIN asm.data.nodes),
                                      asm.data.nodes, NodeCollectionState_new)
       IN asm' = [phase |-> "built", pbf |-> asm.pbf, bbox |-> asm.bbox,
                  data |-> asm.data,
                  result |-> build_from_filtered_data(asm.data),
                  node_map |-> node_state.osm_to_graph_id,
                  by_way |-> EdgesByWay(asm.data, node_state)]
    /\ UNCHANGED <<cacheVars, search>>

AsmNext ==
    \/ AsmFilter
    \/ AsmBuild

SpecAsm == AsmInit /\ [][AsmNext]_vars

\* [coord(from)] ++ waypoints ++ [coord(to)] of an edge of a GraphFile
EdgePolyline(graph, e) ==
    <<NodeCoord(graph.nodes[e.from])>> \o e.waypoints \o <<NodeCoord(graph.nodes[e.to])>>

\* the polylines of consecutive edges one after the other, each junction once
JoinPolylines(polylines) ==
    IF polylines = <<>> THEN <<>>
    ELSE Head(polylines)
         \o Flatten([k \in 1..(Len(polylines) - 1) |-> Tail(polylines[k + 1])])

\* C3: for every way the assembler processes whose node refs are all in the
\* node map, the polylines [coord(from)] ++ waypoints ++ [coord(to)] of the
\* edges emitted for the way, joined in order, are the coordinates of the
\* way's node refs in their order; no segment of the way is dropped.
C3_WayPolylineKept ==
    (asm.phase = "built" /\ asm.result.ok) =>
        \A i \in DOMAIN asm.data.ways :
            LET refs == asm.data.ways[i].refs
            IN (Len(refs) >= 2 /\ Range(refs) \subseteq DOMAIN asm.node_map) =>
                  JoinPolylines([k \in DOMAIN asm.by_way[i] |->
                                    EdgePolyline(asm.result.v, asm.by_way[i][k])])
                     = [k \in DOMAIN refs |-> asm.data.nodes[refs[k]]]

-----------------------------------------------------------------------------
(* The tile merge as a state machine: build_from_tiles on a tiles directory *)

\* tile files as generate_tiles writes them: each is the assembler's graph
\* for the tile, with its own ids 1..n.  The tiles meet at lon = 1801.8.
TileGraphWest ==
    GraphFile(<<NodeRecord(1, 12, 1795), NodeRecord(2, 20, 1800),
                NodeRecord(3, 20, 1805)>>,
              <<EdgeRecord(1, 2, "Trail", 94, <<>>),
                EdgeRecord(2, 3, "Trail", 50, <<>>)>>)

TileGraphEast ==
    GraphFile(<<NodeRecord(1, 20, 1800), NodeRecord(2, 20, 1805),
                NodeRecord(3, 25, 1810), NodeRecord(4, 40, 1812)>>,
              <<EdgeRecord(1, 2, "Trail", 50, <<>>),
                EdgeRecord(2, 3, "Trail", 70, <<>>),
                EdgeRecord(3, 4, "Paved", 151, <<>>)>>)

\* the contents of a tiles directory: which tile files exist, whether each
\* decodes, and the graph it holds
TileDirs ==
    UNION {[present -> [readable : BOOLEAN,
                          graph : {TileGraphWest, TileGraphEast}]] :
              present \in SUBSET {TileId(0, 0), TileId(1, 0)}}

\* request bboxes astride the boundary of the two tiles
TileBBoxes == {BBox(10, 30, 1790, 1815), BBox(15, 30, 1790, 1815),
               BBox(15, 30, 1803, 1815)}

TilesInit ==
    /\ QuietCache
    /\ search = NoSearch
    /\ asm \in {[phase |-> "tiles", files |-> files, bbox |-> bbox] :
                   files \in TileDirs, bbox \in TileBBoxes}

\* GraphBuilder::build_from_tiles
TilesMerge ==
    /\ asm.phase = "tiles"
    /\ \E res \in build_from_tiles(asm.files, asm.bbox) :
          asm' = [phase |-> "merged", files |-> asm.files, bbox |-> asm.bbox,
                  result |-> res]
    /\ UNCHANGED <<cacheVars, search>>

SpecTiles == TilesInit /\ [][TilesMerge]_vars

-----------------------------------------------------------------------------
(* Loop generation (loops.rs, generate_loops).  Distances are in tenths of  *)
(* a kilometre, ascents in metres.                                          *)

MIN_TARGET_DISTANCE_KM == 20
MIN_DISTANCE_TOLERANCE_KM == 5
MAX_LOOP_CANDIDATES == 12
TARGET_RING_FACTORS == <<75, 100, 125>>

\* a tolerance that is raised to the minimum but not capped at the target
loop_tolerance_uncapped(request) ==
    IF request.distance_tolerance_km > MIN_DISTANCE_TOLERANCE_KM
    THEN request.distance_tolerance_km ELSE MIN_DISTANCE_TOLERANCE_KM

\* req.distance_tolerance_km.max(MIN_DISTANCE_TOLERANCE_KM).min(req.target_distance_km)
loop_tolerance(request) ==
    LET raised == IF request.distance_tolerance_km > MIN_DISTANCE_TOLERANCE_KM
                  THEN request.distance_tolerance_km
                  ELSE MIN_DISTANCE_TOLERANCE_KM
    IN IF raised < request.target_distance_km THEN raised
       ELSE request.target_distance_km

\* a goal that is the requested count as it comes
candidate_goal_unclamped(request) == request.candidate_count

\* req.candidate_count.clamp(1, MAX_LOOP_CANDIDATES)
candidate_goal(request) ==
    IF request.candidate_count < 1 THEN 1
    ELSE IF request.candidate_count > MAX_LOOP_CANDIDATES THEN MAX_LOOP_CANDIDATES
    ELSE request.candidate_count

LoopCandidate(distance_km, distance_error, total_ascent) ==
    [distance_km |-> distance_km, distance_error_km |-> distance_error,
     total_ascent |-> total_ascent]

RECURSIVE SortCandidates(_)
\* candidates.sort_by(..): a stable sort by ascent, then by distance error
SortCandidates(cands) ==
    IF cands = <<>> THEN <<>>
    ELSE LET CandidateLess(a, b) ==
                 \/ a.total_ascent < b.total_ascent
                 \/ /\ a.total_ascent = b.total_ascent
                    /\ a.distance_error_km < b.distance_error_km
             n == Len(cands)
             sorted == SortCandidates(SubSeq(cands, 1, n - 1))
             x == cands[n]
             keep == Cardinality({i \in DOMAIN sorted : ~CandidateLess(x, sorted[i])})
         IN SubSeq(sorted, 1, keep) \o <<x>> \o SubSeq(sorted, keep + 1, n - 1)

-----------------------------------------------------------------------------
(* generate_loops as a state machine: one step per ring waypoint            *)

\* requests: a target at the minimum (invalid) and one of 10 km
LoopRequests ==
    {[target_distance_km |-> target, distance_tolerance_km |-> tol,
      candidate_count |-> count, max_total_ascent |-> bounds[1],
      min_total_ascent |-> bounds[2]] :
        target \in {MIN_TARGET_DISTANCE_KM, 100}, tol \in {0, 20, 200},
        count \in {0, 2, 5},
        bounds \in {<<None, None>>, <<Some(300), None>>, <<None, Some(300)>>}}

\* what the waypoint of a step yields: no loop path (build_loop_path is
\* None), or a loop path of len points and distance_km, for which the
\* elevation oracle fails or gives a total ascent and the GPX encoder fails
\* or not
LoopOutcomes ==
    {[path |-> FALSE]}
    \cup [path : {TRUE}, len : {2, 5}, distance_km : {100, 110, 250},
          elevation : {Err("Dem"), Ok(100), Ok(500)}, gpx_ok : BOOLEAN]

LoopsInit ==
    /\ QuietCache
    /\ asm = NoAsm
    /\ search \in {[phase |-> "call", req |-> request] : request \in LoopRequests}

\* the response or the error generate_loops returns
LoopsDone(request, evaluated, last_accepted, cands, res) ==
    [phase |-> "done", req |-> request, evaluated |-> evaluated,
     last_accepted |-> last_accepted, candidates |-> cands, result |-> res]

\* generate_loops up to the loop over the rings
GenerateLoops ==
    /\ search.phase = "call"
    /\ search' =
         IF search.req.target_distance_km <= MIN_TARGET_DISTANCE_KM
         THEN LoopsDone(search.req, 0, FALSE, <<>>, Err("InvalidTargetDistance"))
         ELSE [phase |-> "rings", req |-> search.req,
               tolerance |-> loop_tolerance(search.req),
               candidate_goal |-> candidate_goal(search.req),
               attempts_per_ring |-> IF candidate_goal(search.req) > 4
                                     THEN candidate_goal(search.req) ELSE 4,
               ring_idx |-> 0, step |-> 0, candidates |-> <<>>,
               evaluated |-> 0, last_accepted |-> FALSE]
    /\ UNCHANGED <<cacheVars, asm>>

\* one iteration of the inner loop; evaluated counts the waypoints handed to
\* build_loop_path and last_accepted tells whether the latest one was accepted
LoopStep ==
    /\ search.phase = "rings"
    /\ search.ring_idx < Len(TARGET_RING_FACTORS)
    /\ Len(search.candidates) < search.candidate_goal
    /\ \E o \in LoopOutcomes :
          LET request == search.req
              last == search.step + 1 = search.attempts_per_ring
              continue == [search EXCEPT
                              !.ring_idx = IF last THEN @ + 1 ELSE @,
                              !.step = IF last THEN 0 ELSE @ + 1,
                              !.evaluated = @ + 1,
                              !.last_accepted = FALSE]
              distance_error == IF o.distance_km >= request.target_distance_km
                                THEN o.distance_km - request.target_distance_km
                                ELSE request.target_distance_km - o.distance_km
          IN search' =
               IF ~o.path THEN continue
               ELSE IF o.len < 3 THEN continue
               ELSE IF distance_error > search.tolerance THEN continue
               ELSE IF ~o.elevation.ok
                    THEN LoopsDone(request, search.evaluated + 1, FALSE,
                                   search.candidates, Err("Elevation"))
               ELSE IF request.max_total_ascent.some
                       /\ o.elevation.v > request.max_total_ascent.v THEN continue
               ELSE IF request.min_total_ascent.some
                       /\ o.elevation.v < request.min_total_ascent.v THEN continue
               ELSE IF ~o.gpx_ok
                    THEN LoopsDone(request, search.evaluated + 1, FALSE,
                                   search.candidates, Err("Gpx"))
               ELSE [continue EXCEPT
                        !.last_accepted = TRUE,
                        !.candidates = Append(@, LoopCandidate(o.distance_km,
                                                  distance_error, o.elevation.v))]
    /\ UNCHANGED <<cacheVars, asm>>

\* the end of the rings or break 'rings, then the sort and the truncation
LoopsReturn ==
    /\ search.phase = "rings"
    /\ \/ search.ring_idx >= Len(TARGET_RING_FACTORS)
       \/ Len(search.candidates) >= search.candidate_goal
    /\ LET sorted == SortCandidates(search.candidates)
           \* candidates.truncate(candidate_goal)
           kept == IF Len(sorted) < search.candidate_goal THEN Len(sorted)
                   ELSE search.candidate_goal
       IN search' =
            LoopsDone(search.req, search.evaluated, search.last_accepted,
                      search.candidates,
                      IF search.candidates = <<>> THEN Err("NoLoopFound")
                      ELSE Ok([target_distance_km |-> search.req.target_distance_km,
                               distance_tolerance_km |-> search.tolerance,
                               candidates |-> SubSeq(sorted, 1, kept)]))
    /\ UNCHANGED <<cacheVars, asm>>

SpecLoops == LoopsInit /\ [][GenerateLoops \/ LoopStep \/ LoopsReturn]_vars

-----------------------------------------------------------------------------
(* The HTTP handlers up to their graph lookup (backend_partial.rs,          *)
(* partial_graph.rs).  Margins and radii are in kilometres, lengths of the  *)
(* bbox sides in tenths of a kilometre; the longitudes are taken at the     *)
(* equator, where a degree of longitude is 111 km too.                      *)

MAX_BBOX_AREA_KM2 == 10000

\* BoundingBox::validate
validate(bbox) ==
    LET lat_diff == bbox.max_lat - bbox.min_lat
        lon_diff == bbox.max_lon - bbox.min_lon
        lat_side == (lat_diff * KM_PER_DEGREE) \div (UNITS_PER_DEGREE \div 10)
        lon_side == (lon_diff * KM_PER_DEGREE) \div (UNITS_PER_DEGREE \div 10)
    IN IF lat_side * lon_side > MAX_BBOX_AREA_KM2 * 100
       THEN Err("Bounding box too large")
       ELSE IF lat_diff <= 0 \/ lon_diff <= 0
            THEN Err("Invalid bounding box")
            ELSE Ok(TRUE)

\* x.max(lo).min(hi) of the handlers' clamps, in degrees
ClampDegrees(x, limit) ==
    IF x < -limit * UNITS_PER_DEGREE THEN -limit * UNITS_PER_DEGREE
    ELSE IF x > limit * UNITS_PER_DEGREE THEN limit * UNITS_PER_DEGREE
    ELSE x

\* BoundingBox::from_route
from_route(start, end, margin_km) ==
    LET margin == (margin_km * UNITS_PER_DEGREE) \div KM_PER_DEGREE
        lo(a, b) == IF a < b THEN a ELSE b
        hi(a, b) == IF a > b THEN a ELSE b
    IN BBox(lo(start.lat, end.lat) - margin, hi(start.lat, end.lat) + margin,
            lo(start.lon, end.lon) - margin, hi(start.lon, end.lon) + margin)

\* bbox_from_center
bbox_from_center(center, radius_km) ==
    LET margin == (radius_km * UNITS_PER_DEGREE) \div KM_PER_DEGREE
    IN BBox(ClampDegrees(center.lat - margin, 90), ClampDegrees(center.lat + margin, 90),
            ClampDegrees(center.lon - margin, 180), ClampDegrees(center.lon + margin, 180))

\* the JSON bodies the four endpoints receive; their coordinates are three
\* within a quarter of a degree, one two degrees away and, where the
\* handler tests coordinates or nothing, one of latitude 91
HandlerRequests ==
    LET near == {Coord(0, 0), Coord(1000, 1000), Coord(0, 2500), Coord(20000, 20000)}
        any == near \cup {Coord(910000, 0)}
    IN [handler : {"route"}, start : any, end : any]
       \cup [handler : {"loop"}, start : any,
             target_distance_km : {2, 10, 200}, distance_tolerance_km : {0, 2}]
       \cup [handler : {"multi"}, close_loop : BOOLEAN,
             waypoints : UNION {[1..n -> near] : n \in 1..2}]
       \cup [handler : {"partial"}, start : any, end : any, margin_km : {0, 5}]

HandlersInit ==
    /\ lru = <<>> /\ disk = <<>> /\ putLog = <<>> /\ putClock = 0
    /\ env = [pbf |-> "missing", tiles |-> "unset"]
    /\ evicted = None /\ hitKeys = {} /\ warm = {}
    /\ faults = [crashes |-> 0, io |-> 0]
    /\ search = NoSearch /\ asm = NoAsm
    /\ req \in {<<[pc |-> "received", body |-> body]>> : body \in HandlerRequests}

\* the handler answers 400 without a lookup
Rejected(r) == req' = [req EXCEPT ![r] = [pc |-> "rejected", body |-> @.body]]

\* the handler enters prepare_graph_for_bbox or build_partial_cached, whose
\* first step is the cache lookup for bbox
LooksUp(r, bbox) ==
    req' = [req EXCEPT ![r] = [pc |-> "lookup", body |-> @.body, bbox |-> bbox]]

\* route_handler up to prepare_graph_for_bbox
route_handler(r) ==
    /\ req[r].pc = "received" /\ req[r].body.handler = "route"
    /\ LooksUp(r, from_route(req[r].body.start, req[r].body.end, 5))
    /\ UNCHANGED <<lru, disk, env, putLog, putClock, evicted, hitKeys, warm,
                   faults, search, asm>>

\* loop_route_handler up to prepare_graph_for_bbox
loop_route_handler(r) ==
    /\ req[r].pc = "received" /\ req[r].body.handler = "loop"
    /\ LET body == req[r].body
           half == IF body.target_distance_km \div 2 > 2
                   THEN body.target_distance_km \div 2 ELSE 2
           radius == (half * 14) \div 10
                     + (IF body.distance_tolerance_km > 1
                        THEN body.distance_tolerance_km ELSE 1)
       IN LooksUp(r, bbox_from_center(body.start, radius))
    /\ UNCHANGED <<lru, disk, env, putLog, putClock, evicted, hitKeys, warm,
                   faults, search, asm>>

\* multi_route_handler up to prepare_graph_for_bbox
multi_route_handler(r) ==
    /\ req[r].pc = "received" /\ req[r].body.handler = "multi"
    /\ LET points == req[r].body.waypoints
           lats == {points[i].lat : i \in DOMAIN points}
           lons == {points[i].lon : i \in DOMAIN points}
           least(S) == CHOOSE x \in S : \A y \in S : x <= y
           most(S) == CHOOSE x \in S : \A y \in S : x >= y
           margin_deg == (5 * UNITS_PER_DEGREE) \div KM_PER_DEGREE
           bbox == BBox(ClampDegrees(least(lats) - margin_deg, 90),
                        ClampDegrees(most(lats) + margin_deg, 90),
                        ClampDegrees(least(lons) - margin_deg, 180),
                        ClampDegrees(most(lons) + margin_deg, 180))
       IN IF Len(points) < 2 THEN Rejected(r)
          ELSE IF ~validate(bbox).ok THEN Rejected(r)
          ELSE LooksUp(r, bbox)
    /\ UNCHANGED <<lru, disk, env, putLog, putClock, evicted, hitKeys, warm,
                   faults, search, asm>>

\* partial_graph_handler up to the cache file test and build_partial_cached
partial_graph_handler(r) ==
    /\ req[r].pc = "received" /\ req[r].body.handler = "partial"
    /\ LET body == req[r].body
           is_valid_coordinate(c) ==
               /\ c.lat >= -90 * UNITS_PER_DEGREE /\ c.lat <= 90 * UNITS_PER_DEGREE
               /\ c.lon >= -180 * UNITS_PER_DEGREE /\ c.lon <= 180 * UNITS_PER_DEGREE
       IN IF ~is_valid_coordinate(body.start) \/ ~is_valid_coordinate(body.end)
          THEN Rejected(r)
          ELSE LooksUp(r, from_route(body.start, body.end, body.margin_km))
    /\ UNCHANGED <<lru, disk, env, putLog, putClock, evicted, hitKeys, warm,
                   faults, search, asm>>

HandlersNext ==
    \/ \E r \in DOMAIN req : route_handler(r)
    \/ \E r \in DOMAIN req : loop_route_handler(r)
    \/ \E r \in DOMAIN req : multi_route_handler(r)
    \/ \E r \in DOMAIN req : partial_graph_handler(r)

SpecHandlers == HandlersInit /\ [][HandlersNext]_vars

-----------------------------------------------------------------------------
(* Claims about route and loop searches                                     *)

\* the lengths of the edges of a GraphFile that join the nodes at positions
\* a and b of its node list
FileEdgeLengths(g, a, b) ==
    LET id_to_index == IdToIndex(g.nodes)
    IN {g.edges[k].length_m :
           k \in {j \in DOMAIN g.edges :
                     {id_to_index[g.edges[j].from], id_to_index[g.edges[j].to]} = {a, b}}}

SetMin(S) == CHOOSE x \in S : \A y \in S : x <= y

RECURSIVE SimplePaths(_, _, _, _)
\* the paths without repeated node from a node to t in the graph with
\* adjacency relation adj
SimplePaths(adj, from, t, visited) ==
    IF from = t THEN {<<t>>}
    ELSE UNION {{<<from>> \o w : w \in SimplePaths(adj, m, t, visited \cup {m})} :
                   m \in {n \in adj[from] : n \notin visited}}

\* the length of every path from s to t over the edges of the GraphFile
FilePathLengths(g, s, t) ==
    LET adj == [a \in DOMAIN g.nodes |->
                   {b \in DOMAIN g.nodes : FileEdgeLengths(g, a, b) # {}}]
    IN {SeqSum([k \in 1..(Len(w) - 1) |->
                   SetMin(FileEdgeLengths(g, w[k], w[k + 1]))]) :
           w \in SimplePaths(adj, s, t, {s})}

\* summed length of the edges a route of the engine runs over
RouteLength(engine, route) ==
    SeqSum([k \in 1..(Len(route) - 1) |->
               engine.edges[{route[k], route[k + 1]}].length_m])

RouteEdges(route) == {{route[k], route[k + 1]} : k \in 1..(Len(route) - 1)}

\* C1: with w_pop = w_paved = 0, a find_path whose start and end snap to
\* nodes returns a path whose summed edge length is the least over all
\* paths between the two snapped nodes on the edges of the GraphFile.
C1_ZeroWeightsShortest ==
    ( /\ search.phase = "done" /\ search.op = "find_path" /\ search.snapped
      /\ search.req.w_pop = 0 /\ search.req.w_paved = 0
      /\ FilePathLengths(search.graph, search.start, search.end) # {} ) =>
        /\ search.result.some
        /\ RouteLength(EngineOf(search.graph), search.route)
              = SetMin(FilePathLengths(search.graph, search.start, search.end))

\* the return search of a finished loop had a way back to the start node
\* over edges the outbound route did not use
AlternativeExists ==
    LET engine == EngineOf(search.graph)
        adj == [a \in DOMAIN engine.nodes |->
                   {b \in Neighbors(engine, a) :
                       {a, b} \notin RouteEdges(search.outbound_route)}]
    IN SimplePaths(adj, search.start, search.end, {search.start}) # {}

\* C2: when build_loop_path runs the return search with the edges of the
\* outbound route excluded, the return path uses none of the outbound edges
\* whenever another route from the waypoint node back to the start node
\* exists, also when the outbound edges carry waypoints.
C2_ReturnAvoidsOutbound ==
    ( /\ search.phase = "done" /\ search.op = "build_loop_path"
      /\ search.stage = "inbound" /\ search.snapped
      /\ AlternativeExists ) =>
        /\ search.result.some
        /\ RouteEdges(search.route) \cap RouteEdges(search.outbound_route) = {}

-----------------------------------------------------------------------------
(* Claims about the cache lookups                                           *)

IsOk(res) == "ok" \in DOMAIN res /\ res.ok
IsErr(res, e) == "err" \in DOMAIN res /\ res.err = e
Consulted(r, tier) == tier \in Range(req[r].tiers)
TilesUsable == env.tiles \in {"empty", "tile00"}

\* the order of section 4.4: LRU, disk, tile set when TILES_DIR is usable,
\* and the PBF assembler last
TierOrder ==
    <<"lru", "disk">> \o (IF TilesUsable THEN <<"tiles">> ELSE <<>>) \o <<"pbf">>

\* C4: every lookup consults process LRU, then disk cache, then tile set, and
\* reaches the PBF assembler only after all of them have missed, in
\* build_partial_cached and in prepare_graph_for_bbox alike.
C4_TiersInOrder ==
    \A r \in Reqs :
        /\ req[r].tiers = SubSeq(TierOrder, 1, Len(req[r].tiers))
        /\ Consulted(r, "pbf") => req[r].tiers = TierOrder

\* two requests of build_partial_cached for one key that both missed every
\* tier, built their graph and wrote the disk cache, and have both returned
BothMissed(r1, r2) ==
    /\ r1 # r2
    /\ \A r \in {r1, r2} :
          /\ req[r].kind = "partial" /\ req[r].pc = "done"
          /\ req[r].missed /\ req[r].built /\ ~req[r].iofail
    /\ Key(r1) = Key(r2)

\* C5: when two concurrent build_partial_cached calls for one key both miss
\* every tier (and their build and disk writes succeed) both return Ok, and
\* the LRU then holds exactly one entry for the key, with the graph of the
\* call whose LRU put came last.
C5_SecondWriteWins ==
    \A r1, r2 \in Reqs :
        BothMissed(r1, r2) =>
            /\ IsOk(req[r1].result) /\ IsOk(req[r2].result)
            /\ Cardinality({i \in DOMAIN lru : lru[i].key = Key(r1)}) = 1
            /\ putLog[Key(r1)].writer \in Reqs
            /\ peek(lru, Key(r1)) = Some(putLog[Key(r1)].graph)
            /\ putLog[Key(r1)].writer \in {r1, r2} =>
                  putLog[Key(r1)].graph = req[putLog[Key(r1)].writer].graph.v

\* both missed, the graphs differ, and the second put replaced the first
C5_Witness ==
    \E r1, r2 \in Reqs :
        /\ BothMissed(r1, r2)
        /\ req[r1].graph # req[r2].graph
        /\ putLog[Key(r1)].writer = r2
        /\ peek(lru, Key(r1)) = req[r2].graph

\* C6: read hits on the LRU never change the eviction order: whenever a put
\* of a new key into the full cache (20 entries) evicts a key, the evicted
\* key is the one whose latest put is the oldest, whatever reads hit in
\* between.
C6_ReadsKeepEvictionOrder ==
    /\ Len(lru) <= LRU_CAPACITY
    /\ evicted.some =>
          \A t \in evicted.v.others : evicted.v.time < t

\* the evicted key had been read from the cache while it was the oldest
C6_Witness ==
    /\ evicted.some
    /\ evicted.v.wasRead
    /\ Cardinality(evicted.v.others) = LRU_CAPACITY - 1

\* C7: once a build_partial_cached call for a bbox has returned Ok, a later
\* call for a bbox with the same bounds rounded to 3 decimals has the same
\* cache key and is answered from the LRU alone (no disk read, no PBF), as
\* long as the key was not evicted in between.
C7_RoundedBoxHitsLru ==
    /\ \A a, b \in RequestBBoxes : SameRounded(a, b) => cache_key(a) = cache_key(b)
    /\ \A r \in Reqs :
          (req[r].kind = "partial" /\ req[r].hot) =>
              /\ req[r].tiers = <<"lru">>
              /\ req[r].pc \in {"done", "aborted"}
              /\ IsOk(req[r].result)

\* a second call with another bbox of the same rounded bounds was answered
\* from the LRU entry the first call left
C7_Witness ==
    \E r0, r \in Reqs :
        /\ r0 # r
        /\ req[r0].kind = "partial" /\ req[r0].pc = "done" /\ req[r0].built
        /\ req[r].kind = "partial" /\ req[r].pc = "done" /\ req[r].hot
        /\ req[r].bbox # req[r0].bbox
        /\ req[r].result = Ok(req[r0].graph.v)

\* C8: a disk cache file left partially written (by a crashed request or by
\* a request still writing it) never makes a later lookup for its key fail:
\* the lookup reads a complete graph or treats the key as a miss.
C8_PartialFileHarmless ==
    \A r \in Reqs : ~IsErr(req[r].result, "CacheRead")

\* C9: when the graph was built but create_dir_all or the cache file write
\* fails, the lookup still returns the built graph.
C9_WriteFailureSwallowed ==
    \A r \in Reqs :
        (req[r].pc = "done" /\ req[r].built) => req[r].result = Ok(req[r].graph.v)

\* C10: with a tiles directory configured and no tile file covering the
\* bbox, build_from_tiles yields EmptyGraph, never Ok with a graph of zero
\* nodes: prepare_graph_for_bbox holds no graph before it has gone on to
\* the PBF.
C10_NoTilesIsEmptyGraph ==
    \A r \in Reqs :
        ( /\ req[r].kind = "prepare"
          /\ env.tiles = "empty"
          /\ Consulted(r, "tiles")
          /\ ~Consulted(r, "pbf") ) => ~req[r].graph.some

-----------------------------------------------------------------------------
(* Claims about the graph producers                                         *)

NodeIds(graph) == {graph.nodes[i].id : i \in DOMAIN graph.nodes}

\* C11: the graph returned by build_from_tiles has no two nodes of the same
\* id, only nodes inside the request bbox, and only edges whose from and to
\* are ids of returned nodes.
C11_TileMergeClosed ==
    (asm.phase = "merged" /\ asm.result.ok) =>
        LET g == asm.result.v
        IN /\ \A i, j \in DOMAIN g.nodes : g.nodes[i].id = g.nodes[j].id => i = j
           /\ \A i \in DOMAIN g.nodes : contains(asm.bbox, NodeCoord(g.nodes[i]))
           /\ \A k \in DOMAIN g.edges :
                 g.edges[k].from \in NodeIds(g) /\ g.edges[k].to \in NodeIds(g)

\* two tiles sharing node ids were merged, the bbox dropped a node and with
\* it an edge, and nodes and edges remain
C11_Witness ==
    /\ asm.phase = "merged" /\ asm.result.ok
    /\ DOMAIN asm.files = {TileId(0, 0), TileId(1, 0)}
    /\ \A t \in DOMAIN asm.files : asm.files[t].readable
    /\ asm.files[TileId(0, 0)].graph = TileGraphWest
    /\ asm.files[TileId(1, 0)].graph = TileGraphEast
    /\ asm.bbox = BBox(15, 30, 1790, 1815)
    /\ Len(asm.result.v.nodes) = 2
    /\ Len(asm.result.v.edges) = 2

\* C12: every GraphFile a graph producer returns has nodes[i].id = i + 1 at
\* every (0-based) index i and every edge's from and to in 1..nodes.len();
\* here for the tile merge and, under the assembler's specification, for
\* build_from_pbf with a bbox.
C12_DenseIds ==
    ( /\ asm.phase \in {"merged", "built"}
      /\ asm.result.ok ) =>
        LET g == asm.result.v
        IN /\ \A i \in DOMAIN g.nodes : g.nodes[i].id = i
           /\ \A k \in DOMAIN g.edges :
                 /\ g.edges[k].from \in 1..Len(g.nodes)
                 /\ g.edges[k].to \in 1..Len(g.nodes)

\* C13: every edge of a graph assembled for a bbox comes from a way whose
\* highway value is supported; a way with any other highway value (motorway)
\* contributes no edge and does not change the intersections.
C13_OnlySupportedHighways ==
    (asm.phase = "built" /\ asm.result.ok) =>
        LET ways == asm.data.ways
            admissible == SelectSeq(ways, LAMBDA w : has_supported_highway(w.tags))
        IN /\ \A i \in DOMAIN ways :
                 asm.by_way[i] # <<>> => has_supported_highway(ways[i].tags)
           /\ identify_intersection_nodes(ways) = identify_intersection_nodes(admissible)

\* C19: the routing engine built from the assembler's output is the same
\* (same edge, length and surface between every pair of nodes) for every
\* order in which the parallel PBF filter delivers the ways.
C19_WayOrderIrrelevant ==
    (asm.phase = "built" /\ asm.result.ok) =>
        LET in_file_order == build_from_pbf(asm.pbf, asm.bbox,
                                 WayOrder(Len(asm.data.ways), FALSE))
        IN from_graph_file(asm.result.v) = from_graph_file(in_file_order.v)

\* C20: the output of the PBF filter is bbox-local: every way in it has a
\* node ref inside the bbox, and every node in it is inside the bbox or
\* referenced by such a way.
C20_FilterBBoxLocal ==
    asm.phase \in {"filtered", "built"} =>
        LET inside(ref) == /\ ref \in DOMAIN asm.pbf.nodes
                           /\ contains(asm.bbox, asm.pbf.nodes[ref])
            touches(w) == \E i \in DOMAIN w.refs : inside(w.refs[i])
            ways == asm.data.ways
        IN /\ \A k \in DOMAIN ways : touches(ways[k])
           /\ \A id \in DOMAIN asm.data.nodes :
                 \/ inside(id)
                 \/ \E k \in DOMAIN ways :
                       touches(ways[k]) /\ id \in Range(ways[k].refs)

-----------------------------------------------------------------------------
(* Claims about loop generation                                             *)

LoopsAnswered == search.phase = "done" /\ "evaluated" \in DOMAIN search

\* the k of a request: its candidate_count brought into 1..12
GoalOf(request) ==
    CHOOSE k \in 1..12 :
        \A j \in 1..12 : (k - request.candidate_count) * (k - request.candidate_count)
                            <= (j - request.candidate_count) * (j - request.candidate_count)

\* the number of ring waypoints of a request: 3 * max(k, 4)
WaypointsOf(request) ==
    3 * (IF GoalOf(request) >= 4 THEN GoalOf(request) ELSE 4)

\* C14: every candidate of a successful generate_loops response is within
\* the tolerance of the target distance (the requested tolerance raised to
\* at least 0.5 km and capped at the target) and has its ascent within
\* min_total_ascent and max_total_ascent when they are set.
C14_CandidatesWithinLimits ==
    (LoopsAnswered /\ search.result.ok) =>
        LET request == search.req
            target == request.target_distance_km
            raised == IF request.distance_tolerance_km >= 5
                      THEN request.distance_tolerance_km ELSE 5
            tol == IF raised <= target THEN raised ELSE target
            cands == search.result.v.candidates
        IN \A i \in DOMAIN cands :
              /\ cands[i].distance_km - target <= tol
              /\ target - cands[i].distance_km <= tol
              /\ request.max_total_ascent.some =>
                    cands[i].total_ascent <= request.max_total_ascent.v
              /\ request.min_total_ascent.some =>
                    cands[i].total_ascent >= request.min_total_ascent.v

\* a response of two candidates, one off the target, for a request whose
\* tolerance exceeds the target and whose ascent is bounded
C14_Witness ==
    /\ LoopsAnswered /\ search.result.ok
    /\ search.req.distance_tolerance_km > search.req.target_distance_km
    /\ search.req.max_total_ascent.some
    /\ Len(search.result.v.candidates) = 2
    /\ \E i \in DOMAIN search.result.v.candidates :
          search.result.v.candidates[i].distance_error_km > 5

C16_ElevationFailureRejectsOne ==
    (LoopsAnswered /\ search.result = Err("Elevation")) =>
        /\ search.candidates = <<>>
        /\ search.evaluated = WaypointsOf(search.req)

-----------------------------------------------------------------------------
(* Claims about the handlers                                                *)

\* C18: no handler starts a cache lookup or a graph construction for a bbox
\* that violates the BoundingBox invariants (area above 10 000 km2, or a
\* min that is not below its max): the route, multi-waypoint, loop and
\* partial-graph handlers all reject such a request first.
C18_LookupsOnlyForValidBBoxes ==
    \A r \in DOMAIN req :
        ("pc" \in DOMAIN req[r] /\ req[r].pc = "lookup") => validate(req[r].bbox).ok

-----------------------------------------------------------------------------
(* Claims of the last group                                                 *)

\* C22: after any sequence of cache reads and writes by any number of
\* concurrent requests, the process-wide LRU holds at most 20 graphs.
C22_LruHoldsAtMostTwenty ==
    /\ Len(lru) <= 20
    /\ \A i, j \in DOMAIN lru : lru[i].key = lru[j].key => i = j

\* a request put the graph of a new key into the full cache
C22_Witness ==
    /\ Len(lru) = 20
    /\ evicted.some
    /\ \E r \in DOMAIN req : req[r].built /\ peek(lru, Key(r)).some

\* C27: in a graph merged from several tile files every edge joins the same
\* two coordinates it joined in the tile file it was read from: node ids
\* given per tile are never conflated between tiles.
C27_TileEdgesKeepTheirEnds ==
    (asm.phase = "merged" /\ asm.result.ok) =>
        LET g == asm.result.v
            merged(id) == CHOOSE n \in Range(g.nodes) : n.id = id
        IN \A t \in DOMAIN asm.files :
              LET tile == asm.files[t].graph
                  own(id) == CHOOSE n \in Range(tile.nodes) : n.id = id
              IN \A k \in DOMAIN tile.edges :
                    LET e == tile.edges[k]
                    IN (e.from \in NodeIds(g) /\ e.to \in NodeIds(g)) =>
                          /\ NodeCoord(merged(e.from)) = NodeCoord(own(e.from))
                          /\ NodeCoord(merged(e.to)) = NodeCoord(own(e.to))

\* C30: prepare_graph_for_bbox never writes a graph with zero nodes to the
\* disk cache, so that no later request of the same cache key loads an
\* empty graph.
C30_NoEmptyGraphOnDisk ==
    \A f \in DOMAIN disk :
        (f[1] \in {"bbox_json", "bbox_zst"} /\ "nodes" \in DOMAIN disk[f].graph) =>
            disk[f].graph.nodes # <<>>

SearchSnapped == "snapped" \in DOMAIN search /\ search.snapped

\* the cost of every path without repeated node from n to the goal of the
\* search, at the plain edge cost of the request
CostsToGoal(n) ==
    LET engine == EngineOf(search.graph)
        weights == WeightConfig(search.query.w_pop, search.query.w_paved)
        adj == [a \in DOMAIN engine.nodes |->
                   {b \in DOMAIN engine.nodes : {a, b} \in DOMAIN engine.edges}]
    IN {SeqSum([k \in 1..(Len(w) - 1) |->
                   edge_cost(engine.edges[{w[k], w[k + 1]}], weights)]) :
           w \in SimplePaths(adj, n, search.end, {n})}

\* C23: for every request with non-negative weights and every node n, the
\* heuristic value A* uses for n never exceeds the cheapest cost from n to
\* the goal node (the node snapped from req.end), also when req.end is the
\* coordinate of no node.
C23_HeuristicAdmissible ==
    (SearchSnapped /\ search.phase = "astar") =>
        \A n \in DOMAIN EngineOf(search.graph).nodes :
            CostsToGoal(n) # {} =>
                heuristic(EngineOf(search.graph), search.query.end, search.end, n)
                    <= SetMin(CostsToGoal(n))

\* C24: in the return search of build_loop_path, an outbound edge incident
\* to the loop's start node (the goal of the return search) is never
\* penalized: it keeps its normal cost.
C24_ClosingEdgeAtNormalCost ==
    (SearchSnapped /\ search.stage = "inbound" /\ search.phase = "astar") =>
        LET engine == EngineOf(search.graph)
            weights == WeightConfig(search.query.w_pop, search.query.w_paved)
        IN \A pair \in search.excluded :
              ( /\ search.end \in {pair[1], pair[2]}
                /\ {pair[1], pair[2]} \in DOMAIN engine.edges ) =>
                  excluded_edge_cost(engine, weights, search.excluded,
                                     search.start, pair[1], pair[2])
                     = edge_cost(engine.edges[{pair[1], pair[2]}], weights)

\* C29: closest_node only returns nodes that are an endpoint of at least one
\* edge of the engine graph; nodes without incident edge are never chosen as
\* snap target.
C29_SnapsOnlyToRoadNodes ==
    SearchSnapped =>
        /\ Neighbors(EngineOf(search.graph), search.start) # {}
        /\ Neighbors(EngineOf(search.graph), search.end) # {}

\* C25: identify_intersection_nodes returns exactly the nodes that are the
\* first or last ref of some way or that appear in at least two different
\* ways; a node interior to one way and in no other way is never an
\* intersection, and edges are split only at intersections.
C25_IntersectionsExact ==
    (asm.phase = "built" /\ asm.result.ok) =>
        LET ways == asm.data.ways
            used == {i \in DOMAIN ways : ways[i].refs # <<>>}
            ends == {ways[i].refs[1] : i \in used}
                    \cup {ways[i].refs[Len(ways[i].refs)] : i \in used}
            shared == {n \in UNION {Range(ways[i].refs) : i \in used} :
                          \E i, j \in used : /\ i # j
                                             /\ n \in Range(ways[i].refs)
                                             /\ n \in Range(ways[j].refs)}
            osm_of(id) == {o \in DOMAIN asm.node_map : asm.node_map[o] = id}
        IN /\ identify_intersection_nodes(ways) = ends \cup shared
           /\ \A i \in DOMAIN asm.by_way : \A k \in DOMAIN asm.by_way[i] :
                 /\ osm_of(asm.by_way[i][k].from) \subseteq ends \cup shared
                 /\ osm_of(asm.by_way[i][k].to) \subseteq ends \cup shared


\* the edge record of the file that the engine keeps between two node
\* indices: the last one of the file that joins them
StoredEdge(g, a, b) ==
    LET id_to_index == IdToIndex(g.nodes)
        joins(k) == {id_to_index[g.edges[k].from], id_to_index[g.edges[k].to]} = {a, b}
    IN g.edges[CHOOSE k \in DOMAIN g.edges :
                  joins(k) /\ \A j \in DOMAIN g.edges : joins(j) => j <= k]

\* a sequence from its last element to its first
Backwards(s) == [i \in 1..Len(s) |-> s[Len(s) + 1 - i]]

RECURSIVE InTravelOrder(_, _, _)
\* the polyline after the first node in which the waypoints of every edge
\* are listed in the direction of travel
InTravelOrder(g, route, k) ==
    IF k >= Len(route) THEN <<>>
    ELSE LET e == StoredEdge(g, route[k], route[k + 1])
             forward == IdToIndex(g.nodes)[e.from] = route[k]
         IN (IF forward THEN e.waypoints ELSE Backwards(e.waypoints))
            \o <<NodeCoord(g.nodes[route[k + 1]])>>
            \o InTravelOrder(g, route, k + 1)

\* C26: when a route traverses an edge from its `to` to its `from`, the
\* returned polyline lists the waypoints of the edge in the reverse of their
\* stored order, so that the polyline follows the way in the direction of
\* travel
C26_WaypointsFollowTravel ==
    (search.phase = "done" /\ "op" \in DOMAIN search /\ search.op = "find_path"
     /\ search.result.some) =>
        search.result.v =
            <<NodeCoord(search.graph.nodes[search.route[1]])>>
            \o InTravelOrder(search.graph, search.route, 1)


\* C21: the distance_km of a multi-waypoint response is the sum of the
\* lengths of the paths of all its segments, not the length of the last
\* segment only
C21_DistanceSumsSegments ==
    (search.phase = "done" /\ "op" \in DOMAIN search /\ search.op = "multi_route"
     /\ search.result.some) =>
        /\ Len(search.segment_lengths) = Len(search.points) - 1
        /\ search.total_distance = SeqSum(search.segment_lengths)

\* a response of three segments of which the first and the last have a length
C21_Witness ==
    /\ search.phase = "done" /\ "op" \in DOMAIN search /\ search.op = "multi_route"
    /\ search.result.some
    /\ Len(search.segment_lengths) = 3
    /\ search.segment_lengths[1] > 0
    /\ search.segment_lengths[3] > 0
    /\ search.total_distance > search.segment_lengths[3]


\* C28: find_path and find_path_with_excluded_edges terminate on every
\* finite graph for every request, also when negative w_pop or w_paved make
\* edge costs negative: a search is waiting for its call, in the loop of
\* astar, which always has a next step, or done; it is never in the loop of
\* reconstruct_path_to with predecessors that run in a circle, which has
\* no exit
C28_SearchTerminates == search.phase \in {"idle", "astar", "done"}

=============================================================================
